---------------------------- MODULE Spec2Model ----------------------------
(***************************************************************************)
(* Model of the trading_backtest simulation core: the Portfolio ledger    *)
(* (portfolio.py) and the Backtester.run loop (backtester.py).            *)
(*                                                                         *)
(* Numbers.  Python floats are modelled as exact rationals <<n, d>> in     *)
(* lowest terms with d > 0, so every statement below is one of exact       *)
(* arithmetic; IEEE rounding is not modelled.                              *)
(*                                                                         *)
(* Dictionaries.  A Python dict that the code iterates (holdings, the      *)
(* target_holdings argument) is a sequence of <<key, value>> pairs in      *)
(* insertion order.  A dict that is only looked up (prices_dict) is a      *)
(* function whose DOMAIN is the set of keys.                               *)
(*                                                                         *)
(* Exceptions.  Every method is an operator returning a record with the    *)
(* field raised and the object state self left behind by the call.         *)
(***************************************************************************)
EXTENDS Integers, Sequences, FiniteSets, TLC

(***************************************************************************)
(* Exact rational arithmetic                                               *)
(***************************************************************************)
RECURSIVE GCD(_, _)
GCD(a, b) == IF b = 0 THEN a ELSE GCD(b, a % b)

Abs(n) == IF n < 0 THEN -n ELSE n

\* n/d in lowest terms, d # 0
Norm(n, d) ==
    LET g == GCD(Abs(n), Abs(d))
        s == IF d < 0 THEN -1 ELSE 1
    IN  <<(s * n) \div g, (s * d) \div g>>

R(n)      == <<n, 1>>
Zero      == <<0, 1>>
One       == <<1, 1>>
\* over the least common denominator, to keep the intermediate products small
Add(x, y) ==
    Norm(x[1] * (y[2] \div GCD(x[2], y[2])) + y[1] * (x[2] \div GCD(x[2], y[2])),
         x[2] * (y[2] \div GCD(x[2], y[2])))
Neg(x)    == <<-x[1], x[2]>>
Sub(x, y) == Add(x, Neg(y))
\* cross-cancel before multiplying to keep the intermediate products small
Mul(x, y) ==
    LET a == Norm(x[1], y[2])
        b == Norm(y[1], x[2])
    IN  <<a[1] * b[1], a[2] * b[2]>>
\* y # Zero
Div(x, y) == Mul(x, Norm(y[2], y[1]))
Lt(x, y)  ==
    x[1] * (y[2] \div GCD(x[2], y[2])) < y[1] * (x[2] \div GCD(x[2], y[2]))
Le(x, y)  ==
    x[1] * (y[2] \div GCD(x[2], y[2])) <= y[1] * (x[2] \div GCD(x[2], y[2]))
Gt(x, y)  == Lt(y, x)

(***************************************************************************)
(* Insertion-ordered dictionaries                                          *)
(***************************************************************************)
Keys(d)      == {d[i][1] : i \in 1..Len(d)}
KeySeq(d)    == [i \in 1..Len(d) |-> d[i][1]]
HasKey(d, k) == \E i \in 1..Len(d) : d[i][1] = k
Index(d, k)  == CHOOSE i \in 1..Len(d) : d[i][1] = k
\* d.get(k, default)
Get(d, k, default) == IF HasKey(d, k) THEN d[Index(d, k)][2] ELSE default
\* d[k] = v : in place when k is present, appended otherwise
Put(d, k, v) ==
    IF HasKey(d, k) THEN [d EXCEPT ![Index(d, k)] = <<k, v>>]
    ELSE Append(d, <<k, v>>)
\* del d[k]
Del(d, k) ==
    LET i == Index(d, k)
    IN  SubSeq(d, 1, i - 1) \o SubSeq(d, i + 1, Len(d))
\* dict(list of pairs): a repeated key keeps its first position, last value
RECURSIVE DictOf(_)
DictOf(pairs) ==
    IF pairs = <<>> THEN <<>>
    ELSE LET n == Len(pairs)
         IN  Put(DictOf(SubSeq(pairs, 1, n - 1)), pairs[n][1], pairs[n][2])

(***************************************************************************)
(* Portfolio (portfolio.py)                                                *)
(***************************************************************************)
\* date=None, the default of every method's date argument
None == -1
\* datetime.now(), stamped on a trade made without a date
Now == -2

\* 0.01, the threshold of rebalance on the value lost to sell commissions
Cent == <<1, 100>>

\* abs(x) < 1e-10, computed as |n| <= floor((d - 1) / 10^10)
BelowPruneEps(x) == Abs(x[1]) <= ((x[2] - 1) \div 100000) \div 100000

Returned(self) == [raised |-> FALSE, self |-> self]
Raised(self)   == [raised |-> TRUE, self |-> self]

\* Portfolio.__init__
NewPortfolio(initial_capital, commission_buy, commission_sell) ==
    [initial_capital |-> initial_capital,
     cash            |-> initial_capital,
     holdings        |-> <<>>,
     commission_buy  |-> commission_buy,
     commission_sell |-> commission_sell,
     trades          |-> <<>>,
     total_value     |-> initial_capital]

\* Portfolio._record_trade keeping the last record only
RecordTradeOverwriting(self, date, ticker, action, shares, price, commission, value) ==
    [self EXCEPT !.trades =
        <<[date       |-> IF date # None THEN date ELSE Now,
           ticker     |-> ticker,
           action     |-> action,
           shares     |-> shares,
           price      |-> price,
           commission |-> commission,
           value      |-> value]>>]

\* Portfolio._record_trade
RecordTrade(self, date, ticker, action, shares, price, commission, value) ==
    [self EXCEPT !.trades = Append(@,
        [date       |-> IF date # None THEN date ELSE Now,
         ticker     |-> ticker,
         action     |-> action,
         shares     |-> shares,
         price      |-> price,
         commission |-> commission,
         value      |-> value])]

\* Portfolio.buy, lines 77-79: total_cost of an order
TotalCost(self, shares, price) ==
    Add(Mul(shares, price), Mul(Mul(shares, price), self.commission_buy))

\* Portfolio.buy, lines 91-92: the shares the cash affords; price # Zero
MaxAffordable(self, price) ==
    Div(Div(self.cash, Add(One, self.commission_buy)), price)

\* lines 97-100 debiting the cost without the commission
FillWithoutCommission(self, ticker, shares, price, date, cost, commission) ==
    RecordTrade([self EXCEPT
                   !.cash = Sub(@, cost),
                   !.holdings = Put(@, ticker, Add(Get(@, ticker, Zero), shares))],
                date, ticker, "buy", shares, price, commission, cost)

\* Portfolio.buy, lines 97-100, with cost = shares * price and
\* commission = cost * commission_buy as lines 77-78 and 93-94 set them
Fill(self, ticker, shares, price, date, cost, commission) ==
    RecordTrade([self EXCEPT
                   !.cash = Sub(@, Add(cost, commission)),
                   !.holdings = Put(@, ticker, Add(Get(@, ticker, Zero), shares))],
                date, ticker, "buy", shares, price, commission, cost)

BuyShares(self, ticker, shares, price, date) ==
    Fill(self, ticker, shares, price, date, Mul(shares, price),
         Mul(Mul(shares, price), self.commission_buy))

\* Portfolio.buy without the clamp of lines 82-95
BuyUnclamped(self, ticker, shares, price, date) ==
    IF Le(shares, Zero) THEN Raised(self)
    ELSE Returned(BuyShares(self, ticker, shares, price, date))

\* Portfolio.buy raising on insufficient cash instead of clamping
BuyRejecting(self, ticker, shares, price, date) ==
    IF Le(shares, Zero) THEN Raised(self)
    ELSE IF Gt(TotalCost(self, shares, price), self.cash) THEN Raised(self)
    ELSE Returned(BuyShares(self, ticker, shares, price, date))

\* Portfolio.buy
Buy(self, ticker, shares, price, date) ==
    IF Le(shares, Zero) THEN Raised(self)
    ELSE IF Gt(TotalCost(self, shares, price), self.cash)
    THEN IF price = Zero THEN Raised(self)              \* ZeroDivisionError
         ELSE Returned(BuyShares(self, ticker, MaxAffordable(self, price),
                                 price, date))
    ELSE Returned(BuyShares(self, ticker, shares, price, date))

\* lines 148-155 crediting the proceeds with the commission still in them
CreditGross(self, ticker, shares, price, date, proceeds, commission, remainder) ==
    RecordTrade([self EXCEPT
                   !.cash = Add(@, proceeds),
                   !.holdings = IF BelowPruneEps(remainder) THEN Del(@, ticker)
                                ELSE Put(@, ticker, remainder)],
                date, ticker, "sell", shares, price, commission, proceeds)

\* Portfolio.sell_partial, lines 148-155
Credit(self, ticker, shares, price, date, proceeds, commission, remainder) ==
    RecordTrade([self EXCEPT
                   !.cash = Add(@, Sub(proceeds, commission)),
                   !.holdings = IF BelowPruneEps(remainder) THEN Del(@, ticker)
                                ELSE Put(@, ticker, remainder)],
                date, ticker, "sell", shares, price, commission, proceeds)

\* Portfolio.sell_partial without the check of lines 138-141
SellPartialUnchecked(self, ticker, shares, price, date) ==
    IF ~HasKey(self.holdings, ticker) THEN Raised(self)
    ELSE IF Le(shares, Zero) THEN Raised(self)
    ELSE Returned(Credit(self, ticker, shares, price, date,
                         Mul(shares, price),
                         Mul(Mul(shares, price), self.commission_sell),
                         Sub(Get(self.holdings, ticker, Zero), shares)))

\* Portfolio.sell_partial
SellPartial(self, ticker, shares, price, date) ==
    IF ~HasKey(self.holdings, ticker) THEN Raised(self)
    ELSE IF Le(shares, Zero) THEN Raised(self)
    ELSE IF Gt(shares, Get(self.holdings, ticker, Zero)) THEN Raised(self)
    ELSE Returned(Credit(self, ticker, shares, price, date,
                         Mul(shares, price),
                         Mul(Mul(shares, price), self.commission_sell),
                         Sub(Get(self.holdings, ticker, Zero), shares)))

\* Portfolio.sell
Sell(self, ticker, price, date) ==
    IF ~HasKey(self.holdings, ticker) THEN Raised(self)
    ELSE SellPartial(self, ticker, Get(self.holdings, ticker, Zero), price, date)

\* Portfolio.get_holdings_value: the sum over holdings[i..] that have a price
RECURSIVE HoldingsValueFrom(_, _, _)
HoldingsValueFrom(holdings, prices_dict, i) ==
    IF i > Len(holdings) THEN Zero
    ELSE Add(IF holdings[i][1] \in DOMAIN prices_dict
             THEN Mul(holdings[i][2], prices_dict[holdings[i][1]])
             ELSE Zero,
             HoldingsValueFrom(holdings, prices_dict, i + 1))

GetHoldingsValue(self, prices_dict) ==
    HoldingsValueFrom(self.holdings, prices_dict, 1)

\* Portfolio.update_value leaving the cash out
UpdateValueHoldingsOnly(self, prices_dict) ==
    [self EXCEPT !.total_value = GetHoldingsValue(self, prices_dict)]

\* Portfolio.update_value
UpdateValue(self, prices_dict) ==
    [self EXCEPT !.total_value = Add(self.cash, GetHoldingsValue(self, prices_dict))]

\* Portfolio.get_position
GetPosition(self, ticker) == Get(self.holdings, ticker, Zero)

\* Portfolio.get_trade_history listing the newest record first
GetTradeHistoryNewestFirst(self) ==
    [i \in 1..Len(self.trades) |-> self.trades[Len(self.trades) + 1 - i]]

\* Portfolio.get_trade_history: the rows of a new DataFrame, one per record
GetTradeHistory(self) == [i \in 1..Len(self.trades) |-> self.trades[i]]

(***************************************************************************)
(* Allocation and the commission-aware conversion                          *)
(***************************************************************************)
Value(v)   == [raised |-> FALSE, value |-> v]
NoValue    == [raised |-> TRUE, value |-> <<>>]

\* Portfolio._equal_weight
EqualWeight(selected_assets, total_value) ==
    LET n == Len(selected_assets)
    IN  IF n = 0 THEN <<>>
        ELSE DictOf([i \in 1..n |->
                       <<selected_assets[i][1], Div(total_value, R(n))>>])

\* sum(score for ticker, score in selected_assets[i..])
RECURSIVE ScoreSumFrom(_, _)
ScoreSumFrom(selected_assets, i) ==
    IF i > Len(selected_assets) THEN Zero
    ELSE Add(selected_assets[i][2], ScoreSumFrom(selected_assets, i + 1))

\* Portfolio._score_proportional weighting by the score itself
ScoreProportionalUnscaled(selected_assets, total_value) ==
    DictOf([i \in 1..Len(selected_assets) |->
              <<selected_assets[i][1], Mul(selected_assets[i][2], total_value)>>])

\* Portfolio._score_proportional
ScoreProportional(selected_assets, total_value) ==
    IF selected_assets = <<>> THEN <<>>
    ELSE
      LET total_score == ScoreSumFrom(selected_assets, 1)
      IN  IF total_score = Zero THEN EqualWeight(selected_assets, total_value)
          ELSE DictOf([i \in 1..Len(selected_assets) |->
                         <<selected_assets[i][1],
                           Mul(Div(selected_assets[i][2], total_score),
                               total_value)>>])

\* Portfolio.calculate_target_holdings taking an unknown method for 'equal'
CalculateTargetHoldingsDefaulting(selected_assets, total_value, allocation_method) ==
    IF allocation_method = "score_proportional"
    THEN Value(ScoreProportional(selected_assets, total_value))
    ELSE Value(EqualWeight(selected_assets, total_value))

\* Portfolio.calculate_target_holdings
CalculateTargetHoldings(selected_assets, total_value, allocation_method) ==
    IF allocation_method = "equal"
    THEN Value(EqualWeight(selected_assets, total_value))
    ELSE IF allocation_method = "score_proportional"
    THEN Value(ScoreProportional(selected_assets, total_value))
    ELSE NoValue

\* the shares of the target value without room for the commission
SharesForGross(self, target_value, price) == Div(target_value, price)

\* Portfolio.convert_values_to_shares, one entry of the result
SharesFor(self, target_value, price) ==
    Div(Div(target_value, Add(One, self.commission_buy)), price)

\* Portfolio.convert_values_to_shares over target_values[1..n]
RECURSIVE ConvertUpTo(_, _, _, _)
ConvertUpTo(self, target_values, prices_dict, n) ==
    IF n = 0 THEN Value(<<>>)
    ELSE
      LET done   == ConvertUpTo(self, target_values, prices_dict, n - 1)
          ticker == target_values[n][1]
      IN  IF done.raised THEN done
          ELSE IF ticker \notin DOMAIN prices_dict THEN done
          ELSE IF prices_dict[ticker] = Zero THEN NoValue  \* ZeroDivisionError
          ELSE Value(Put(done.value, ticker,
                         SharesFor(self, target_values[n][2], prices_dict[ticker])))

\* Portfolio.convert_values_to_shares converting the first target only
ConvertValuesToSharesOfFirst(self, target_values, prices_dict) ==
    ConvertUpTo(self, target_values, prices_dict,
                IF Len(target_values) > 1 THEN 1 ELSE Len(target_values))

\* Portfolio.convert_values_to_shares
ConvertValuesToShares(self, target_values, prices_dict) ==
    ConvertUpTo(self, target_values, prices_dict, Len(target_values))

(***************************************************************************)
(* Portfolio.rebalance                                                     *)
(***************************************************************************)
\* Step 1 reducing positions only, a ticker without target being kept
SellOrderKeeping(self, ticker, current_shares, target_shares, prices_dict, date) ==
    IF target_shares # Zero /\ Lt(target_shares, current_shares)
    THEN IF ticker \notin DOMAIN prices_dict THEN Raised(self)
         ELSE SellPartial(self, ticker, Sub(current_shares, target_shares),
                          prices_dict[ticker], date)
    ELSE Returned(self)

\* Step 1, one ticker of list(self.holdings.keys())
SellOrder(self, ticker, current_shares, target_shares, prices_dict, date) ==
    IF target_shares = Zero
    THEN IF ticker \notin DOMAIN prices_dict THEN Raised(self)      \* KeyError
         ELSE Sell(self, ticker, prices_dict[ticker], date)
    ELSE IF Lt(target_shares, current_shares)
    THEN IF ticker \notin DOMAIN prices_dict THEN Raised(self)      \* KeyError
         ELSE SellPartial(self, ticker, Sub(current_shares, target_shares),
                          prices_dict[ticker], date)
    ELSE Returned(self)

SellStep(self, ticker, target_holdings, prices_dict, date) ==
    SellOrder(self, ticker, Get(self.holdings, ticker, Zero),
              Get(target_holdings, ticker, Zero), prices_dict, date)

\* Step 1 over the tickers keys[i..], keys being the holdings' keys on entry;
\* done is the outcome of the tickers before
RECURSIVE SellPhase(_, _, _, _, _, _)
SellPhase(done, keys, i, target_holdings, prices_dict, date) ==
    IF done.raised \/ i > Len(keys) THEN done
    ELSE SellPhase(SellStep(done.self, keys[i], target_holdings, prices_dict, date),
                   keys, i + 1, target_holdings, prices_dict, date)

\* value_lost, from the value marked before Step 1 and the ledger marked after it
ValueLost(portfolio_value_initial, after_sell) ==
    Sub(portfolio_value_initial, after_sell.total_value)

\* cash_intended_to_buy taken as the cash Step 1 has brought in
CashBroughtIn(cash_initial, after_sell, value_lost) ==
    Sub(after_sell.cash, cash_initial)

\* cash_intended_to_buy
CashIntendedToBuy(cash_initial, after_sell, value_lost) ==
    Add(Sub(after_sell.cash, cash_initial), value_lost)

\* (cash_intended_to_buy - value_lost) / cash_intended_to_buy;
\* the division raises ZeroDivisionError on a zero denominator
Fraction(cash_intended_to_buy, value_lost) ==
    IF cash_intended_to_buy = Zero THEN NoValue
    ELSE Value(Div(Sub(cash_intended_to_buy, value_lost), cash_intended_to_buy))

\* fraction_to_buy
FractionToBuy(cash_initial, after_sell, value_lost) ==
    IF Gt(value_lost, Cent)
    THEN Fraction(CashIntendedToBuy(cash_initial, after_sell, value_lost),
                  value_lost)
    ELSE Value(One)

\* Step 2, lines 270-280: buy what the cash affords
BuyAffordable(self, ticker, price, date) ==
    IF ~Gt(self.cash, Zero) THEN Returned(self)
    ELSE IF price = Zero THEN Raised(self)               \* ZeroDivisionError
    ELSE IF Gt(Div(self.cash, Mul(price, Add(One, self.commission_buy))), Zero)
    THEN Buy(self, ticker,
             Div(self.cash, Mul(price, Add(One, self.commission_buy))),
             price, date)
    ELSE Returned(self)

\* Step 2 leaving the clamping to buy
BuyOrderUnguarded(self, ticker, shares_to_buy, price, date) ==
    Buy(self, ticker, shares_to_buy, price, date)

\* Step 2, lines 261-280
BuyOrder(self, ticker, shares_to_buy, price, date) ==
    IF Le(Mul(Mul(shares_to_buy, price), Add(One, self.commission_buy)), self.cash)
    THEN Buy(self, ticker, shares_to_buy, price, date)
    ELSE BuyAffordable(self, ticker, price, date)

\* Step 2 ordering the whole target of a ticker, held or not
BuyStepWholeTarget(self, ticker, target_shares, fraction_to_buy, prices_dict, date) ==
    IF ~Gt(target_shares, Get(self.holdings, ticker, Zero)) THEN Returned(self)
    ELSE IF ticker \notin DOMAIN prices_dict THEN Raised(self)
    ELSE BuyOrder(self, ticker, Mul(target_shares, fraction_to_buy),
                  prices_dict[ticker], date)

\* Step 2, one item of target_holdings.items()
BuyStep(self, ticker, target_shares, fraction_to_buy, prices_dict, date) ==
    IF ~Gt(target_shares, Get(self.holdings, ticker, Zero)) THEN Returned(self)
    ELSE IF ticker \notin DOMAIN prices_dict THEN Raised(self)      \* KeyError
    ELSE BuyOrder(self, ticker,
                  Mul(Sub(target_shares, Get(self.holdings, ticker, Zero)),
                      fraction_to_buy),
                  prices_dict[ticker], date)

\* Step 2 over target_holdings[i..]; done is the outcome of the items before
RECURSIVE BuyPhase(_, _, _, _, _, _)
BuyPhase(done, target_holdings, i, fraction_to_buy, prices_dict, date) ==
    IF done.raised \/ i > Len(target_holdings) THEN done
    ELSE BuyPhase(BuyStep(done.self, target_holdings[i][1], target_holdings[i][2],
                          fraction_to_buy, prices_dict, date),
                  target_holdings, i + 1, fraction_to_buy, prices_dict, date)

\* Step 1 with no update_value after it: total_value is left as marked before
MarkAfterSellStale(sold, prices_dict) == sold

\* lines 239-240: the second update_value, made when Step 1 has not raised
MarkAfterSell(sold, prices_dict) ==
    IF sold.raised THEN sold ELSE Returned(UpdateValue(sold.self, prices_dict))

\* lines 226-240, on the ledger marked by the first update_value
AfterSell(marked, target_holdings, prices_dict, date) ==
    MarkAfterSell(SellPhase(Returned(marked), KeySeq(marked.holdings), 1,
                            target_holdings, prices_dict, date),
                  prices_dict)

\* lines 247-280
ScaleAndBuy(after_sell, fraction, target_holdings, prices_dict, date) ==
    IF fraction.raised THEN Raised(after_sell)
    ELSE BuyPhase(Returned(after_sell), target_holdings, 1, fraction.value,
                  prices_dict, date)

\* lines 241-280, from the ledger marked before Step 1 and the outcome of Step 1
AdjustAndBuy(marked, after_sell, target_holdings, prices_dict, date) ==
    IF after_sell.raised THEN after_sell
    ELSE ScaleAndBuy(after_sell.self,
                     FractionToBuy(marked.cash, after_sell.self,
                                   ValueLost(marked.total_value, after_sell.self)),
                     target_holdings, prices_dict, date)

\* Step 2 made before Step 1, with no scaling
RebalanceBuyingFirst(marked, target_holdings, prices_dict, date) ==
    LET bought == BuyPhase(Returned(marked), target_holdings, 1, One, prices_dict,
                           date)
    IN  SellPhase(bought, KeySeq(marked.holdings), 1, target_holdings,
                  prices_dict, date)

RebalanceMarked(marked, target_holdings, prices_dict, date) ==
    AdjustAndBuy(marked, AfterSell(marked, target_holdings, prices_dict, date),
                 target_holdings, prices_dict, date)

Rebalance(self, target_holdings, prices_dict, date) ==
    RebalanceMarked(UpdateValue(self, prices_dict), target_holdings, prices_dict,
                    date)

(***************************************************************************)
(* Backtester.run (backtester.py): one iteration of the main loop          *)
(***************************************************************************)
\* Backtester._get_prices
GetPrices(data, date, selected_assets) ==
    [t \in {k \in Keys(selected_assets) : k \in DOMAIN data[date]} |-> data[date][t]]

\* available_dates[available_dates <= current_date]
AvailableDates(data, current_date) == {d \in DOMAIN data : d <= current_date}

\* available_dates[0] in the place of available_dates[-1]
ActualDateEarliest(data, current_date) ==
    CHOOSE d \in AvailableDates(data, current_date) :
        \A e \in AvailableDates(data, current_date) : d <= e

\* available_dates[-1], the index being sorted by date
ActualDate(data, current_date) ==
    CHOOSE d \in AvailableDates(data, current_date) :
        \A e \in AvailableDates(data, current_date) : e <= d

\* the snapshot with the cash recorded as the value of the portfolio
SnapshotOfCash(self, actual_date, selected_assets) ==
    [date             |-> actual_date,
     portfolio_value  |-> self.cash,
     cash             |-> self.cash,
     num_positions    |-> Len(self.holdings),
     holdings         |-> self.holdings,
     selected_tickers |-> KeySeq(selected_assets)]

\* the snapshot appended by step 3
Snapshot(self, actual_date, selected_assets) ==
    [date             |-> actual_date,
     portfolio_value  |-> self.total_value,
     cash             |-> self.cash,
     num_positions    |-> Len(self.holdings),
     holdings         |-> self.holdings,
     selected_tickers |-> KeySeq(selected_assets)]

\* how an iteration ends: the ledger it leaves and the snapshot it appends, if any
Outcome(kind, self, actual_date, prices_dict, snapshot) ==
    [kind |-> kind, self |-> self, actual_date |-> actual_date,
     prices_dict |-> prices_dict, snapshot |-> snapshot]

\* step 3 appending a snapshot also when rebalance has raised
RecordedDespiteError(rebalanced, actual_date, prices_dict, selected_assets) ==
    Outcome(IF rebalanced.raised THEN "error" ELSE "snapshot", rebalanced.self,
            actual_date, prices_dict,
            <<Snapshot(rebalanced.self, actual_date, selected_assets)>>)

\* step 3, or the except clause when rebalance has raised
Recorded(rebalanced, actual_date, prices_dict, selected_assets) ==
    IF rebalanced.raised
    THEN Outcome("error", rebalanced.self, actual_date, prices_dict, <<>>)
    ELSE Outcome("snapshot", rebalanced.self, actual_date, prices_dict,
                 <<Snapshot(rebalanced.self, actual_date, selected_assets)>>)

\* step 2.5
Rebalanced(self, target_shares, actual_date, all_prices, selected_assets) ==
    IF target_shares.raised
    THEN Outcome("error", self, actual_date, all_prices, <<>>)
    ELSE Recorded(Rebalance(self, target_shares.value, all_prices, actual_date),
                  actual_date, all_prices, selected_assets)

\* step 2.4; all_prices = current_prices_holding | current_prices_target
Converted(self, target_values, actual_date, current_prices_holding, current_prices_target, selected_assets) ==
    IF target_values.raised
    THEN Outcome("error", self, actual_date, current_prices_target, <<>>)
    ELSE Rebalanced(self,
                    ConvertValuesToShares(self, target_values.value,
                                          current_prices_target),
                    actual_date, current_prices_target @@ current_prices_holding,
                    selected_assets)

\* steps 2.2 and 2.3
Priced(self, actual_date, current_prices_holding, current_prices_target, selected_assets, allocation_method) ==
    IF DOMAIN current_prices_target = {}
    THEN Outcome("no_target_prices", self, actual_date, current_prices_holding, <<>>)
    ELSE Converted(self,
                   CalculateTargetHoldings(selected_assets, self.total_value,
                                           allocation_method),
                   actual_date, current_prices_holding, current_prices_target,
                   selected_assets)

\* step 2.1; strategy is what strategy_func does: it raises or returns a list
Selected(self, data, actual_date, current_prices_holding, strategy, allocation_method) ==
    IF strategy.raised
    THEN Outcome("error", self, actual_date, current_prices_holding, <<>>)
    ELSE IF strategy.value = <<>>
    THEN Outcome("no_assets", self, actual_date, current_prices_holding, <<>>)
    ELSE Priced(self, actual_date, current_prices_holding,
                GetPrices(data, actual_date, strategy.value), strategy.value,
                allocation_method)

\* steps 1.1 and 1.2 with holdings
Marked(self, data, actual_date, current_prices_holding, strategy, allocation_method) ==
    IF DOMAIN current_prices_holding = {}
    THEN Outcome("no_holding_prices", self, actual_date, current_prices_holding,
                 <<>>)
    ELSE Selected(UpdateValue(self, current_prices_holding), data, actual_date,
                  current_prices_holding, strategy, allocation_method)

\* the try block
TryBlock(self, data, actual_date, strategy, allocation_method) ==
    IF self.holdings # <<>>
    THEN Marked(self, data, actual_date,
                GetPrices(data, actual_date, self.holdings), strategy,
                allocation_method)
    ELSE Selected(self, data, actual_date, <<>>, strategy, allocation_method)

\* history.append of a snapshot whose holdings is the ledger's own dict, not
\* a copy: the holdings of the snapshots before follow the ledger
AppendedSharingHoldings(history, out) ==
    [i \in 1..Len(history) |-> [history[i] EXCEPT !.holdings = out.self.holdings]]
        \o out.snapshot

\* history after an iteration: step 3 appends the snapshot, holdings being a
\* copy of the ledger's dict, and nothing else touches history
Appended(history, out) == history \o out.snapshot

\* the body of the while loop, but for the clock
LoopBody(self, data, current_date, strategy, allocation_method) ==
    IF AvailableDates(data, current_date) = {}
    THEN Outcome("no_date", self, None, <<>>, <<>>)
    ELSE TryBlock(self, data, ActualDate(data, current_date), strategy,
                  allocation_method)

\* step 2.1 handing over the rows up to actual_date only
StrategyCallTruncated(data, n_assets, actual_date) ==
    [data |-> [d \in {e \in DOMAIN data : e <= actual_date} |-> data[d]],
     n |-> n_assets, current_date |-> actual_date]

\* step 2.1: the arguments of strategy_func(data, n=n_assets, current_date=actual_date)
StrategyCall(data, n_assets, actual_date) ==
    [data |-> data, n |-> n_assets, current_date |-> actual_date]

\* the clock with the skip at line 180 going on without advancing it
ClockAfterStalling(kind, current_date, holding_period) ==
    IF kind = "no_assets" THEN current_date ELSE current_date + holding_period

\* the clock after an iteration: each skip advances it before its continue
\* (lines 137, 155, 182, 190), the other paths at line 224
ClockAfter(kind, current_date, holding_period) ==
    IF kind = "no_date" THEN current_date + holding_period
    ELSE IF kind = "no_holding_prices" THEN current_date + holding_period
    ELSE IF kind = "no_assets" THEN current_date + holding_period
    ELSE IF kind = "no_target_prices" THEN current_date + holding_period
    ELSE current_date + holding_period

\* base ** exponent, which is no rational number in general: kept as a term
Pow(base, exponent) == <<"pow", base, exponent>>
\* base ** exponent - 1
PowLessOne(base, exponent) == <<"pow-1", base, exponent>>
\* x / y of terms
Quot(x, y) == <<"div", x, y>>

\* history_df['portfolio_value']
PortfolioValues(history) ==
    [i \in 1..Len(history) |-> history[i].portfolio_value]

\* Series.pct_change().dropna(): the entry of the first row is NaN
PctChange(values) ==
    [i \in 1..Len(values) - 1 |-> Sub(Div(values[i + 1], values[i]), One)]

\* Series.std() of two entries or more, with ddof = 1: 0 when the entries are
\* all the same, and otherwise a positive number kept as a term
Std(s) ==
    IF \A i, j \in 1..Len(s) : s[i] = s[j] THEN Zero ELSE <<"std", s, 1>>

\* Series.std() * np.sqrt(252)
Annualized(std) ==
    IF std = Zero THEN Zero ELSE <<"mul", std, Pow(R(252), <<1, 2>>)>>

\* Series.cummax() at row t
RECURSIVE Cummax(_, _)
Cummax(values, t) ==
    IF t = 1 THEN values[1]
    ELSE LET m == Cummax(values, t - 1)
         IN  IF Lt(m, values[t]) THEN values[t] ELSE m

\* the drawdown at row t measured against the first value
DrawdownFromFirst(values, t) == Div(Sub(values[t], values[1]), values[1])

\* (portfolio_value - cummax) / cummax at row t
Drawdown(values, t) ==
    Div(Sub(values[t], Cummax(values, t)), Cummax(values, t))

\* drawdown.min() over the rows 1..t
RECURSIVE DrawdownMin(_, _)
DrawdownMin(values, t) ==
    IF t = 1 THEN Drawdown(values, 1)
    ELSE LET m == DrawdownMin(values, t - 1)
         IN  IF Lt(Drawdown(values, t), m) THEN Drawdown(values, t) ELSE m

\* the annualized return without the guard on years
TirUnguarded(final_value, initial_capital, years) ==
    PowLessOne(Div(final_value, initial_capital),
               IF years = Zero THEN Zero ELSE Div(One, years))

\* tir: the annualized return
Tir(final_value, initial_capital, years) ==
    IF Gt(years, Zero)
    THEN PowLessOne(Div(final_value, initial_capital), Div(One, years))
    ELSE Zero

\* volatility, of the returns between consecutive snapshots
Volatility(daily_returns) ==
    IF Len(daily_returns) > 1 THEN Annualized(Std(daily_returns)) ELSE Zero

\* sharpe; a volatility is a term (positive) or Zero
Sharpe(daily_returns, tir, volatility) ==
    IF Len(daily_returns) > 1
    THEN IF volatility # Zero THEN Quot(tir, volatility) ELSE Zero
    ELSE Zero

\* calculate_metrics on a history that is not empty; days are whole days, a
\* year is 365.25 of them
CalculateMetrics(history, initial_capital) ==
    LET values        == PortfolioValues(history)
        final_value   == values[Len(values)]
        days          == history[Len(history)].date - history[1].date
        years         == Div(R(4 * days), R(1461))
        tir           == Tir(final_value, initial_capital, years)
        daily_returns == PctChange(values)
        volatility    == Volatility(daily_returns)
    IN  [final_value    |-> final_value,
         total_return   |-> Div(Sub(final_value, initial_capital), initial_capital),
         tir            |-> tir,
         sharpe         |-> Sharpe(daily_returns, tir, volatility),
         max_drawdown   |-> DrawdownMin(values, Len(values)),
         volatility     |-> volatility,
         num_rebalances |-> Len(history),
         days           |-> days,
         years          |-> years]

\* calculate_metrics
CalculateMetricsCalled(history, initial_capital) ==
    IF history = <<>> THEN NoValue  \* ValueError
    ELSE Value(CalculateMetrics(history, initial_capital))

(***************************************************************************)
(* The scoring strategies                                                  *)
(***************************************************************************)
\* the tickers in the order of the sorted index
TickerList == <<"A", "B">>

\* the panel as it is, rows after current_date included
HistoricalDataWhole(data, current_date) == data

\* data.loc[:current_date]: the rows dated current_date or before
HistoricalData(data, current_date) ==
    [d \in {e \in DOMAIN data : e <= current_date} |-> data[d]]

\* the last date of a panel, None for a panel without dates
LastDate(historical_data) ==
    IF DOMAIN historical_data = {} THEN None
    ELSE CHOOSE d \in DOMAIN historical_data : \A e \in DOMAIN historical_data : e <= d

\* the (Date, ticker) index from date d on, in the order of the sorted index
RECURSIVE IndexFrom(_, _)
IndexFrom(historical_data, d) ==
    IF d > LastDate(historical_data) THEN <<>>
    ELSE LET OnDate(t) == d \in DOMAIN historical_data /\ t \in DOMAIN historical_data[d]
         IN  SelectSeq(TickerList, OnDate) \o IndexFrom(historical_data, d + 1)

\* Index.unique() of s[1..n]: every value once, in the order of appearance
RECURSIVE UniqueUpTo(_, _)
UniqueUpTo(s, n) ==
    IF n = 0 THEN <<>>
    ELSE LET u == UniqueUpTo(s, n - 1)
         IN  IF \E i \in 1..Len(u) : u[i] = s[n] THEN u ELSE Append(u, s[n])

\* historical_data.index.get_level_values('ticker').unique()
TickersOf(historical_data) ==
    LET index == IndexFrom(historical_data, 0)
    IN  UniqueUpTo(index, Len(index))

\* historical_data.xs(ticker, level='ticker')['Adj Close'] from date d on
RECURSIVE TickerDataFrom(_, _, _)
TickerDataFrom(historical_data, ticker, d) ==
    IF d > LastDate(historical_data) THEN <<>>
    ELSE (IF d \in DOMAIN historical_data /\ ticker \in DOMAIN historical_data[d]
          THEN <<historical_data[d][ticker]>> ELSE <<>>)
         \o TickerDataFrom(historical_data, ticker, d + 1)

\* historical_data.xs(ticker, level='ticker')['Adj Close'], oldest row first
TickerData(historical_data, ticker) == TickerDataFrom(historical_data, ticker, 0)

\* s[i] + ... + s[Len(s)]
RECURSIVE SumFrom(_, _)
SumFrom(s, i) == IF i > Len(s) THEN Zero ELSE Add(s[i], SumFrom(s, i + 1))

\* list.sort(key=score, reverse=True), one insertion: the sort is stable, so x
\* goes behind the entries whose score is no lower
InsertDescending(sorted, x) ==
    LET ahead == Cardinality({i \in 1..Len(sorted) : Le(x[2], sorted[i][2])})
    IN  SubSeq(sorted, 1, ahead) \o <<x>> \o SubSeq(sorted, ahead + 1, Len(sorted))

\* scores.sort(key=lambda x: x[1], reverse=True) of scores[1..n]
RECURSIVE SortedUpTo(_, _)
SortedUpTo(scores, n) ==
    IF n = 0 THEN <<>> ELSE InsertDescending(SortedUpTo(scores, n - 1), scores[n])

\* scores[:n] after the sort
TopN(scores, n) ==
    LET sorted == SortedUpTo(scores, Len(scores))
    IN  SubSeq(sorted, 1, IF n < Len(sorted) THEN n ELSE Len(sorted))

\* price_to_sma_ratio, the body of the loop: the score of one ticker, if any
PriceToSmaScore(historical_data, ticker, current_date, m) ==
    LET ticker_data == TickerData(historical_data, ticker)
    IN  IF Len(ticker_data) < m THEN <<>>
        ELSE IF ~(current_date \in DOMAIN historical_data
                  /\ ticker \in DOMAIN historical_data[current_date])
        THEN <<>>  \* KeyError
        ELSE LET \* the window of the rolling mean that ends at current_date
                 upto        == Len(TickerData(HistoricalData(historical_data,
                                                              current_date), ticker))
                 current_sma == Div(SumFrom(SubSeq(ticker_data, upto - m + 1, upto), 1),
                                    R(m))
                 current_price == historical_data[current_date][ticker]
             IN  IF upto < m THEN <<>>  \* the mean is NaN
                 ELSE IF Gt(current_sma, Zero)
                 THEN <<<<ticker, Div(current_price, current_sma)>>>>
                 ELSE <<>>

\* relative_momentum, the body of the loop
MomentumScore(historical_data, ticker, lookback_start, lookback_end) ==
    LET ticker_data == TickerData(historical_data, ticker)
        len         == Len(ticker_data)
    IN  IF len < lookback_start THEN <<>>
        ELSE IF lookback_end = 0 THEN <<>>  \* iloc[None]: TypeError, a warning
        ELSE LET price_start == ticker_data[len - lookback_start + 1]
                 price_end   == ticker_data[len - lookback_end + 1]
             IN  IF Gt(price_start, Zero)
                 THEN <<<<ticker, Sub(Div(price_end, price_start), One)>>>>
                 ELSE <<>>

\* np.sign
Sign(x) == IF Gt(x, Zero) THEN 1 ELSE IF Lt(x, Zero) THEN -1 ELSE 0

\* the signs of pct_change().dropna() of s: a change from 0 to 0 is NaN and
\* dropped with the first row, a change from 0 upwards is infinite
RECURSIVE ChangeSigns(_, _)
ChangeSigns(s, i) ==
    IF i > Len(s) THEN <<>>
    ELSE (IF s[i - 1] = Zero
          THEN IF s[i] = Zero THEN <<>> ELSE <<1>>
          ELSE <<Sign(Sub(s[i], s[i - 1]))>>)
         \o ChangeSigns(s, i + 1)

\* fip, the body of the loop
FipScore(historical_data, ticker, lookback_start, lookback_end, only_sign) ==
    LET ticker_data == TickerData(historical_data, ticker)
        len         == Len(ticker_data)
    IN  IF len < lookback_start THEN <<>>
        ELSE
          LET period_data   == SubSeq(ticker_data, len - lookback_start + 1,
                                      len - lookback_end)
              daily_changes == ChangeSigns(period_data, 2)
              n_pos == Cardinality({i \in 1..Len(daily_changes) : daily_changes[i] = 1})
              n_neg == Cardinality({i \in 1..Len(daily_changes) : daily_changes[i] = -1})
              price_start == period_data[1]
              price_end   == period_data[Len(period_data)]
              period_return == Sub(Div(price_end, price_start), One)
              total_days  == lookback_start - lookback_end
          IN  IF Len(period_data) < 2 THEN <<>>
              ELSE IF daily_changes = <<>> THEN <<>>
              ELSE IF ~Gt(price_start, Zero) THEN <<>>
              ELSE IF only_sign
              THEN <<<<ticker, Div(R(Sign(period_return) * (n_pos - n_neg)),
                                   R(total_days))>>>>
              ELSE <<<<ticker, Div(Mul(period_return, R(n_pos - n_neg)),
                                   R(total_days))>>>>

\* the loop over tickers[i..] of a strategy s: the scores appended
RECURSIVE ScoresFrom(_, _, _, _, _)
ScoresFrom(historical_data, tickers, i, current_date, s) ==
    IF i > Len(tickers) THEN <<>>
    ELSE (CASE s.name = "price_to_sma_ratio" ->
                 PriceToSmaScore(historical_data, tickers[i], current_date, s.m)
            [] s.name = "relative_momentum" ->
                 MomentumScore(historical_data, tickers[i], s.lookback_start,
                               s.lookback_end)
            [] s.name = "fip" ->
                 FipScore(historical_data, tickers[i], s.lookback_start,
                          s.lookback_end, s.only_sign))
         \o ScoresFrom(historical_data, tickers, i + 1, current_date, s)

\* the strategy s called as strategy_func(data, n=n, current_date=current_date,
\* **strategy_params)
Scored(s, data, n, current_date) ==
    IF s.name # "price_to_sma_ratio" /\ s.lookback_end >= s.lookback_start
    THEN NoValue  \* ValueError
    ELSE LET historical_data == HistoricalData(data, current_date)
         IN  Value(TopN(ScoresFrom(historical_data, TickersOf(historical_data), 1,
                                   current_date, s), n))

\* price_to_sma_ratio(data, n, current_date, m)
PriceToSmaRatio(data, n, current_date, m) ==
    Scored([name |-> "price_to_sma_ratio", m |-> m, lookback_start |-> 0,
            lookback_end |-> 0, only_sign |-> TRUE], data, n, current_date)

\* relative_momentum(data, n, current_date, lookback_start, lookback_end)
RelativeMomentum(data, n, current_date, lookback_start, lookback_end) ==
    Scored([name |-> "relative_momentum", m |-> 0, lookback_start |-> lookback_start,
            lookback_end |-> lookback_end, only_sign |-> TRUE], data, n, current_date)

\* fip(data, n, current_date, lookback_start, lookback_end, only_sign)
Fip(data, n, current_date, lookback_start, lookback_end, only_sign) ==
    Scored([name |-> "fip", m |-> 0, lookback_start |-> lookback_start,
            lookback_end |-> lookback_end, only_sign |-> only_sign],
           data, n, current_date)

(***************************************************************************)
(* DataManager                                                             *)
(***************************************************************************)
\* what Yahoo Finance has for a ticker: yf.download raises, or returns the
\* rows it has, date -> Adj Close
Failing    == [kind |-> "error", rows |-> <<>>]
Rows(rows) == [kind |-> "data", rows |-> rows]

\* no DataFrame
NoFrame == [none |-> TRUE, ticker |-> "", rows |-> <<>>]
Frame(ticker, rows) == [none |-> FALSE, ticker |-> ticker, rows |-> rows]

\* df.loc[start_date:end_date]
Between(rows, start_date, end_date) ==
    [d \in {e \in DOMAIN rows : start_date <= e /\ e <= end_date} |-> rows[d]]

\* DataManager._validate_data of the rows of one ticker
ValidateData(rows) ==
    /\ DOMAIN rows # {}
    /\ \A d \in DOMAIN rows : ~Lt(rows[d], Zero)

\* DataManager._download_ticker: the request ends 7 days after end_date, its
\* last day excluded
DownloadTicker(yahoo, ticker, start_date, end_date) ==
    IF yahoo[ticker].kind = "error" THEN NoFrame
    ELSE LET downloaded == Between(yahoo[ticker].rows, start_date, end_date + 6)
         IN  IF DOMAIN downloaded = {} THEN NoFrame
             ELSE IF ~ValidateData(downloaded) THEN NoFrame
             ELSE Frame(ticker, downloaded)

\* DataManager._get_single_ticker of a ticker that has no cache file
GetSingleTicker(yahoo, ticker, start_date, end_date) ==
    LET df == DownloadTicker(yahoo, ticker, start_date, end_date)
    IN  IF ~df.none /\ DOMAIN df.rows # {} /\ ~ValidateData(df.rows) THEN NoFrame
        ELSE df

\* DataManager._get_and_normalize_single
GetAndNormalizeSingle(yahoo, ticker, start_date, end_date) ==
    LET df == GetSingleTicker(yahoo, ticker, start_date, end_date)
    IN  IF df.none \/ DOMAIN df.rows = {} THEN NoFrame
        ELSE Frame(ticker, Between(df.rows, start_date, end_date))

\* the frames combined, indexed by (Date, ticker): date -> (ticker -> Adj Close)
Combined(data_frames) ==
    [d \in UNION {DOMAIN data_frames[i].rows : i \in 1..Len(data_frames)} |->
       [t \in {data_frames[i].ticker :
                 i \in {j \in 1..Len(data_frames) : d \in DOMAIN data_frames[j].rows}} |->
          LET i == CHOOSE j \in 1..Len(data_frames) :
                       data_frames[j].ticker = t /\ d \in DOMAIN data_frames[j].rows
          IN  data_frames[i].rows[d]]]

\* get_data after the tasks, raising when one ticker has given no frame
GetDataAllOrNothing(results) ==
    IF \E i \in 1..Len(results) : results[i].none THEN NoValue
    ELSE Value(Combined(results))

\* DataManager.get_data after the tasks: results holds what they returned
GetData(results) ==
    LET IsFrame(r)  == ~r.none
        data_frames == SelectSeq(results, IsFrame)
    IN  IF data_frames = <<>> THEN NoValue  \* ValueError
        ELSE Value(Combined(data_frames))

(***************************************************************************)
(* State                                                                   *)
(***************************************************************************)
VARIABLES
    portfolio,     \* the Portfolio object
    last,          \* the last call made on it: arguments, state before, outcome
    pc,            \* where Backtester.run stands: "idle", "loop", "returned",
                   \* "raised"; "none" when the Portfolio has a caller of its own
    params,        \* the arguments of run()
    data,          \* the price panel: date -> (ticker -> Adj Close)
    current_date,  \* the scheduled date of the loop
    iteration,     \* the loop's iteration counter
    history,       \* the snapshots appended so far
    results,       \* Backtester.results
    fetch          \* the call of DataManager.get_data made by run(), if any

run_vars == <<pc, params, data, current_date, iteration, history, results, fetch>>
vars == <<portfolio, last, run_vars>>

(***************************************************************************)
(* Bounds and the inputs of the calls                                      *)
(***************************************************************************)
\* no order is placed once trades holds this many records
MaxTrades == 3

Tickers == {"A", "B"}
Quarter == <<1, 4>>
Capitals == {R(3)}
Half == <<1, 2>>
RatePairs == {<<Quarter, Quarter>>, <<Zero, Half>>}
ShareInputs == {R(-1), Zero, One, R(2)}
PriceInputs == {One, R(2)}
PriceDicts ==
    {<<>>, [t \in {"A"} |-> One], [t \in Tickers |-> IF t = "A" THEN R(2) ELSE One],
     [t \in Tickers |-> IF t = "A" THEN One ELSE R(2)]}
TargetInputs ==
    {<<>>, <<<<"B", One>>>>, <<<<"A", One>>, <<"B", One>>>>,
     <<<<"B", R(3)>>, <<"A", R(2)>>>>}
ValueInputs ==
    {<<<<"A", R(2)>>, <<"B", One>>>>, <<<<"B", R(3)>>, <<"A", Zero>>>>}

Methods == {"equal", "score_proportional", "other"}

NoCall ==
    [op |-> "init", ticker |-> "", shares |-> Zero, price |-> Zero,
     prices_dict |-> <<>>, arg |-> <<>>, method |-> "", total_value |-> Zero,
     raised |-> FALSE, value |-> <<>>]

Call(op, pre, raised) == [NoCall EXCEPT !.op = op, !.raised = raised] @@ [pre |-> pre]

\* a call is made once the previous one has returned, while orders are allowed
Orders == pc = "none" /\ last.op = "init" /\ Len(portfolio.trades) < MaxTrades

(***************************************************************************)
(* Calls on the Portfolio                                                  *)
(***************************************************************************)
\* no run() has been entered
NoRun ==
    /\ params = <<>>
    /\ data = <<>>
    /\ current_date = 0
    /\ iteration = 0
    /\ history = <<>>
    /\ results = <<>>
    /\ fetch = <<>>

Init ==
    /\ \E c \in Capitals, r \in RatePairs : portfolio = NewPortfolio(c, r[1], r[2])
    /\ last = Call("init", portfolio, FALSE)
    /\ pc = "none"
    /\ NoRun

BuyCall ==
    /\ UNCHANGED run_vars
    /\ Orders
    /\ \E ticker \in Tickers, price \in PriceInputs :
         \E shares \in ShareInputs :
           LET r == Buy(portfolio, ticker, shares, price, None)
           IN  /\ portfolio' = r.self
               /\ last' = [Call("buy", portfolio, r.raised) EXCEPT
                             !.ticker = ticker, !.shares = shares, !.price = price]

SellCall ==
    /\ UNCHANGED run_vars
    /\ Orders
    /\ \E ticker \in Tickers, price \in PriceInputs :
         LET r == Sell(portfolio, ticker, price, None)
         IN  /\ portfolio' = r.self
             /\ last' = [Call("sell", portfolio, r.raised) EXCEPT
                           !.ticker = ticker, !.price = price]

SellPartialCall ==
    /\ UNCHANGED run_vars
    /\ Orders
    /\ \E ticker \in Tickers, price \in PriceInputs, shares \in ShareInputs :
         LET r == SellPartial(portfolio, ticker, shares, price, None)
         IN  /\ portfolio' = r.self
             /\ last' = [Call("sell_partial", portfolio, r.raised) EXCEPT
                           !.ticker = ticker, !.shares = shares, !.price = price]

UpdateValueCall ==
    /\ UNCHANGED run_vars
    /\ Orders
    /\ \E prices_dict \in PriceDicts :
         /\ portfolio' = UpdateValue(portfolio, prices_dict)
         /\ last' = [Call("update_value", portfolio, FALSE) EXCEPT
                       !.prices_dict = prices_dict,
                       !.value = portfolio'.total_value]

ConvertValuesToSharesCall ==
    /\ UNCHANGED run_vars
    /\ Orders
    /\ \E prices_dict \in PriceDicts :
         \E target_values \in ValueInputs :
           LET r == ConvertValuesToShares(portfolio, target_values, prices_dict)
           IN  /\ portfolio' = portfolio
               /\ last' = [Call("convert_values_to_shares", portfolio, r.raised)
                             EXCEPT !.arg = target_values,
                                    !.prices_dict = prices_dict,
                                    !.value = r.value]

RebalanceCall ==
    /\ UNCHANGED run_vars
    /\ Orders
    /\ \E prices_dict \in PriceDicts :
         \E target_holdings \in TargetInputs :
           LET r == Rebalance(portfolio, target_holdings, prices_dict, None)
           IN  /\ portfolio' = r.self
               /\ last' = [Call("rebalance", portfolio, r.raised) EXCEPT
                             !.arg = target_holdings,
                             !.prices_dict = prices_dict]

GetHoldingsValueCall ==
    /\ UNCHANGED run_vars
    /\ Orders
    /\ \E prices_dict \in PriceDicts :
         /\ portfolio' = portfolio
         /\ last' = [Call("get_holdings_value", portfolio, FALSE) EXCEPT
                       !.prices_dict = prices_dict,
                       !.value = GetHoldingsValue(portfolio, prices_dict)]

GetPositionCall ==
    /\ UNCHANGED run_vars
    /\ Orders
    /\ \E ticker \in Tickers :
         /\ portfolio' = portfolio
         /\ last' = [Call("get_position", portfolio, FALSE) EXCEPT
                       !.ticker = ticker,
                       !.value = GetPosition(portfolio, ticker)]

GetTradeHistoryCall ==
    /\ UNCHANGED run_vars
    /\ Orders
    /\ portfolio' = portfolio
    /\ last' = [Call("get_trade_history", portfolio, FALSE) EXCEPT
                  !.value = GetTradeHistory(portfolio)]

\* the call has returned and its caller goes on
Return ==
    /\ UNCHANGED run_vars
    /\ pc = "none"
    /\ last.op # "init"
    /\ last' = Call("init", portfolio, FALSE)
    /\ UNCHANGED portfolio

Next ==
    \/ BuyCall
    \/ SellCall
    \/ SellPartialCall
    \/ UpdateValueCall
    \/ ConvertValuesToSharesCall
    \/ RebalanceCall
    \/ GetHoldingsValueCall
    \/ GetPositionCall
    \/ GetTradeHistoryCall
    \/ Return

Spec == Init /\ [][Next]_vars

\* the orders of a Portfolio: the calls that change cash, holdings or trades
OrdersNext ==
    \/ BuyCall
    \/ SellCall
    \/ SellPartialCall
    \/ RebalanceCall
    \/ Return

OrdersSpec == Init /\ [][OrdersNext]_vars

(***************************************************************************)
(* Calls of calculate_target_holdings                                      *)
(***************************************************************************)
SelectionInputs ==
    {<<>>, <<<<"A", One>>>>,
     <<<<"A", R(2)>>, <<"B", R(2)>>, <<"C", One>>>>,
     <<<<"A", One>>, <<"B", R(-1)>>>>,
     <<<<"A", Zero>>, <<"B", Zero>>>>,
     <<<<"B", R(3)>>, <<"A", One>>>>,
     <<<<"A", R(2)>>, <<"B", One>>>>}
TotalValueInputs == {R(100000), R(3), Zero}

CalculateTargetHoldingsCall ==
    /\ UNCHANGED run_vars
    /\ Orders
    /\ \E selected_assets \in SelectionInputs, total_value \in TotalValueInputs :
         \E allocation_method \in Methods :
           LET r == CalculateTargetHoldings(selected_assets, total_value,
                                           allocation_method)
           IN  /\ portfolio' = portfolio
               /\ last' = [Call("calculate_target_holdings", portfolio, r.raised)
                             EXCEPT !.arg = selected_assets,
                                    !.total_value = total_value,
                                    !.method = allocation_method,
                                    !.value = r.value]

AllocationNext ==
    \/ CalculateTargetHoldingsCall
    \/ Return

AllocationSpec == Init /\ [][AllocationNext]_vars

(***************************************************************************)
(* Calls of the scoring strategies                                         *)
(***************************************************************************)
\* the last date of the panels a strategy is called with
StrategyEnd == 3

\* the rows of one date: both tickers, B alone, or a price of 0
ScoreRows ==
    {[t \in Tickers |-> IF t = "A" THEN One ELSE R(2)],
     [t \in Tickers |-> IF t = "A" THEN R(2) ELSE One],
     [t \in {"B"} |-> One],
     [t \in Tickers |-> IF t = "A" THEN Zero ELSE R(2)]}

ScorePanels == [0..StrategyEnd -> ScoreRows]

\* the shipped strategies with their strategy_params
Strategies ==
    {[name |-> "price_to_sma_ratio", m |-> m, lookback_start |-> 0,
      lookback_end |-> 0, only_sign |-> TRUE] : m \in {1, 2}}
    \cup
    {[name |-> "relative_momentum", m |-> 0, lookback_start |-> w[1],
      lookback_end |-> w[2], only_sign |-> TRUE] :
       w \in {<<2, 1>>, <<2, 0>>, <<1, 1>>}}
    \cup
    {[name |-> "fip", m |-> 0, lookback_start |-> w[1], lookback_end |-> w[2],
      only_sign |-> w[3]] :
       w \in {<<3, 1, TRUE>>, <<3, 0, FALSE>>, <<2, 2, TRUE>>}}

ScoreCall ==
    /\ UNCHANGED run_vars
    /\ Orders
    /\ \E s \in Strategies, panel \in ScorePanels :
         \E n \in 1..2, date \in 0..StrategyEnd :
           LET r == Scored(s, panel, n, date)
           IN  /\ portfolio' = portfolio
               /\ last' = [Call(s.name, portfolio, r.raised)
                             EXCEPT !.arg = panel, !.value = r.value]
                          @@ [strategy |-> s, n |-> n, current_date |-> date]

ScoreNext ==
    \/ ScoreCall
    \/ Return

ScoreSpec == Init /\ [][ScoreNext]_vars

(***************************************************************************)
(* metrics.calculate_metrics                                               *)
(***************************************************************************)
\* the longest history_df passed in
MaxSnapshots == 4
SnapshotValues == {One, R(2), R(4)}
\* days between two snapshots: none (one panel date used twice), or a month
SnapshotSteps == {0, 30}
MetricsCapitals == {R(2), R(4)}

\* the rows of a history_df with these portfolio values, step days apart
HistoryOf(values, step) ==
    [i \in 1..Len(values) |->
       [date |-> (i - 1) * step, portfolio_value |-> values[i], cash |-> values[i],
        holdings |-> <<>>, num_positions |-> 0, selected_tickers |-> <<>>]]

HistoryInputs ==
    {HistoryOf(values, step) :
       values \in UNION {[1..n -> SnapshotValues] : n \in 0..MaxSnapshots},
       step \in SnapshotSteps}

CalculateMetricsCall ==
    /\ UNCHANGED run_vars
    /\ Orders
    /\ \E history_df \in HistoryInputs, initial_capital \in MetricsCapitals :
         LET r == CalculateMetricsCalled(history_df, initial_capital)
         IN  /\ portfolio' = portfolio
             /\ last' = [Call("calculate_metrics", portfolio, r.raised)
                           EXCEPT !.arg = history_df, !.value = r.value]
                        @@ [initial_capital |-> initial_capital]

MetricsNext ==
    \/ CalculateMetricsCall
    \/ Return

MetricsSpec == Init /\ [][MetricsNext]_vars

(***************************************************************************)
(* Backtester.run                                                          *)
(***************************************************************************)
\* the last scheduled date: run() is called with end_date = EndDate
EndDate == 3

\* a start_date within the range, and one later than end_date
StartDates == {1, EndDate + 1}

RunParams ==
    {[initial_capital   |-> R(4),
      start_date        |-> sd,
      end_date          |-> EndDate,
      lookback_period   |-> 1,
      holding_period    |-> h,
      n_assets          |-> n,
      allocation_method |-> m,
      commission_buy    |-> r[1],
      commission_sell   |-> r[2]] :
        sd \in StartDates, h \in {1, 2}, n \in {1, 2}, m \in Methods,
        r \in RatePairs}

\* Panels over the dates data_start..end_date = 0..EndDate
RowAt(d) == [t \in Tickers |-> IF (d % 2 = 0) = (t = "A") THEN R(2) ELSE One]
\* every date, both tickers
PanelFull == [d \in 0..EndDate |-> RowAt(d)]
\* every third date only
PanelGaps == [d \in {e \in 0..EndDate : e % 3 = 0} |-> RowAt(d)]
\* B has no row on date 2
PanelPartial ==
    [d \in 0..EndDate |-> IF d = 2 THEN [t \in {"A"} |-> R(2)] ELSE RowAt(d)]
\* nothing before date 2
PanelLate == [d \in 2..EndDate |-> RowAt(d)]
Panels == {PanelFull, PanelGaps, PanelPartial, PanelLate}

\* what strategy_func may do in one iteration
StrategyOutcomes ==
    {NoValue} \cup
    {Value(v) : v \in {<<>>, <<<<"A", One>>>>, <<<<"B", One>>>>,
                       <<<<"A", R(2)>>, <<"B", One>>>>,
                       <<<<"B", One>>, <<"A", Zero>>>>}}

\* how the last iteration went; call holds the arguments strategy_func was
\* called with, if the iteration has come to step 2.1
Iteration(scheduled, pre, strategy, out, call) ==
    [op |-> "iteration", kind |-> out.kind, scheduled |-> scheduled,
     actual_date |-> out.actual_date, prices_dict |-> out.prices_dict,
     strategy |-> strategy, pre |-> pre,
     call |-> IF out.kind \in {"no_date", "no_holding_prices"} THEN <<>>
              ELSE <<call>>]

RunInit ==
    /\ portfolio = <<>>
    /\ last = NoCall
    /\ pc = "idle"
    /\ NoRun

\* run() up to the main loop keeping the ledger and the snapshots of the run
\* before, if there was one
EnterRunKeepingLedger(p, panel) ==
    /\ params' = p
    /\ data' = panel
    /\ IF DOMAIN panel = {}
       THEN /\ pc' = "raised"
            /\ UNCHANGED <<portfolio, current_date, history, iteration>>
       ELSE /\ pc' = "loop"
            /\ portfolio' = IF portfolio = <<>>
                            THEN NewPortfolio(p.initial_capital, p.commission_buy,
                                              p.commission_sell)
                            ELSE portfolio
            /\ history' = history
            /\ current_date' = p.start_date
            /\ iteration' = 0
    /\ UNCHANGED <<results, fetch>>

\* run(p) up to the main loop, on a manager that serves panel; get_data raises
\* when it has no data at all; portfolio, history and iteration are locals
\* of the call, self.results is left as it is until the run returns
EnterRun(p, panel) ==
    /\ params' = p
    /\ data' = panel
    /\ IF DOMAIN panel = {}
       THEN /\ pc' = "raised"
            /\ UNCHANGED <<portfolio, current_date, history, iteration>>
       ELSE /\ pc' = "loop"
            /\ portfolio' = NewPortfolio(p.initial_capital, p.commission_buy,
                                         p.commission_sell)
            /\ history' = <<>>
            /\ current_date' = p.start_date
            /\ iteration' = 0
    /\ UNCHANGED <<results, fetch>>

\* the first run() of a Backtester
RunStart ==
    /\ pc = "idle"
    /\ \E p \in RunParams, panel \in Panels \cup {<<>>} : EnterRun(p, panel)
    /\ UNCHANGED last

\* the runs that are followed by another run() on the same Backtester
RerunParams ==
    {p \in RunParams : /\ p.start_date = 1
                       /\ p.holding_period = 2
                       /\ p.n_assets = 1
                       /\ p.allocation_method = "equal"}
RerunPanels == {PanelFull, <<>>}

\* run() is called again once a run has returned or raised
RunAgain ==
    /\ pc \in {"returned", "raised"}
    /\ params \in RerunParams
    /\ data \in RerunPanels
    /\ \E p \in RerunParams, panel \in RerunPanels : EnterRun(p, panel)
    /\ last' = NoCall

\* one iteration of the main loop
Iterate ==
    /\ pc = "loop"
    /\ current_date <= params.end_date
    /\ \E strategy \in StrategyOutcomes :
         LET out == LoopBody(portfolio, data, current_date, strategy,
                             params.allocation_method)
         IN  /\ portfolio' = out.self
             /\ history' = Appended(history, out)
             /\ last' = Iteration(current_date, portfolio, strategy, out,
                                  StrategyCall(data, params.n_assets,
                                               out.actual_date))
             /\ current_date' = ClockAfter(out.kind, current_date,
                                           params.holding_period)
    /\ iteration' = iteration + 1
    /\ UNCHANGED <<pc, params, data, results, fetch>>

\* the end of run() compiling results from an empty history too
FinishLenient ==
    /\ pc = "loop"
    /\ current_date > params.end_date
    /\ pc' = "returned"
    /\ results' = [metrics         |-> <<>>,
                   history         |-> history,
                   final_portfolio |-> portfolio,
                   parameters      |-> params]
    /\ UNCHANGED <<portfolio, last, params, data, current_date, iteration, history, fetch>>

\* after the loop: no snapshot is an error, otherwise the results are compiled
Finish ==
    /\ pc = "loop"
    /\ current_date > params.end_date
    /\ IF history = <<>>
       THEN pc' = "raised" /\ UNCHANGED results
       ELSE /\ pc' = "returned"
            /\ results' = [metrics         |-> CalculateMetrics(history,
                                                   params.initial_capital),
                           history         |-> history,
                           final_portfolio |-> portfolio,
                           parameters      |-> params]
    /\ UNCHANGED <<portfolio, last, params, data, current_date, iteration, history, fetch>>

RunNext ==
    \/ RunStart
    \/ Iterate
    \/ Finish

RunSpec == RunInit /\ [][RunNext]_vars

\* runs of one Backtester, one after the other
RunsSpec == RunInit /\ [][RunNext \/ RunAgain]_vars

\* what Yahoo Finance may have for a ticker: an error, nothing, rows on each
\* date up to the day after end_date, a negative price, or a row on the day
\* after end_date and none before
YahooKinds == {"error", "empty", "rows", "negative", "late"}

YahooOf(kind, ticker) ==
    LET price == IF ticker = "A" THEN R(2) ELSE One
    IN  CASE kind = "error"    -> Failing
          [] kind = "empty"    -> Rows(<<>>)
          [] kind = "rows"     -> Rows([d \in 0..EndDate + 1 |-> price])
          [] kind = "negative" -> Rows([d \in 1..2 |-> IF d = 1 THEN price ELSE R(-1)])
          [] kind = "late"     -> Rows([d \in {EndDate + 1} |-> price])

Yahoos == {[t \in Tickers |-> YahooOf(kinds[t], t)] : kinds \in [Tickers -> YahooKinds]}

\* the runs that fetch their data
FetchRunParams ==
    {p \in RunParams : /\ p.start_date = 1
                       /\ p.holding_period = 2
                       /\ p.n_assets = 2
                       /\ p.allocation_method = "equal"}

\* run(p) up to its call of get_data, which starts a task for each ticker
RunFetch ==
    /\ pc = "idle"
    /\ \E p \in FetchRunParams, n_jobs \in 1..2, yahoo \in Yahoos :
         /\ params' = p
         /\ fetch' = [tickers    |-> TickerList,
                      start_date |-> p.start_date - p.lookback_period,
                      end_date   |-> p.end_date,
                      n_jobs     |-> n_jobs,
                      yahoo      |-> yahoo,
                      done       |-> {},
                      results    |-> [i \in 1..Len(TickerList) |-> NoFrame]]
    /\ pc' = "get_data"
    /\ UNCHANGED <<portfolio, last, data, current_date, iteration, history, results>>

\* one task(t) runs to its end: the tasks are taken in the order of tickers by
\* n_jobs workers, and results keeps that order
Task ==
    /\ pc = "get_data"
    /\ \E i \in 1..Len(fetch.tickers) :
         /\ i \notin fetch.done
         /\ Cardinality({j \in 1..i - 1 : j \notin fetch.done}) < fetch.n_jobs
         /\ fetch' = [fetch EXCEPT
                        !.done = @ \cup {i},
                        !.results[i] = GetAndNormalizeSingle(fetch.yahoo,
                                           fetch.tickers[i], fetch.start_date,
                                           fetch.end_date)]
    /\ UNCHANGED <<portfolio, last, pc, params, data, current_date, iteration, history, results>>

\* get_data returns to run() or raises: run() raises ValueError in its turn,
\* or goes on to the main loop
GetDataReturn ==
    /\ pc = "get_data"
    /\ fetch.done = 1..Len(fetch.tickers)
    /\ LET r == GetData(fetch.results)
       IN  IF r.raised
           THEN /\ pc' = "raised"
                /\ UNCHANGED <<portfolio, data, current_date, history, iteration>>
           ELSE /\ pc' = "loop"
                /\ data' = r.value
                /\ portfolio' = NewPortfolio(params.initial_capital,
                                             params.commission_buy,
                                             params.commission_sell)
                /\ history' = <<>>
                /\ current_date' = params.start_date
                /\ iteration' = 0
    /\ UNCHANGED <<last, params, results, fetch>>

DataNext ==
    \/ RunFetch
    \/ Task
    \/ GetDataReturn
    \/ Iterate
    \/ Finish

\* a run of the Backtester on the data its DataManager fetches
DataSpec == RunInit /\ [][DataNext]_vars

\* a Portfolio under its own caller, or a run of the Backtester
LedgerAndRunSpec == (Init \/ RunInit) /\ [][Next \/ RunNext]_vars

(***************************************************************************)
(* Properties                                                              *)
(***************************************************************************)
\* the sum of holdings[t] * prices_dict[t] over the tickers of S
RECURSIVE ValueOver(_, _, _)
ValueOver(S, holdings, prices_dict) ==
    IF S = {} THEN Zero
    ELSE LET t == CHOOSE x \in S : TRUE
         IN  Add(Mul(Get(holdings, t, Zero), prices_dict[t]),
                 ValueOver(S \ {t}, holdings, prices_dict))

\* cash plus the value of the held tickers that have a price
MarkToMarket(cash, holdings, prices_dict) ==
    Add(cash, ValueOver(Keys(holdings) \cap DOMAIN prices_dict, holdings,
                        prices_dict))

\* the state holds a Portfolio
HasLedger == pc \in {"none", "loop", "returned"} \/ (pc = "raised" /\ DOMAIN data # {})

LastTrade(self) == self.trades[Len(self.trades)]

\* the same entries, whatever their order
SameHoldings(h, g) ==
    /\ Keys(h) = Keys(g)
    /\ \A t \in Keys(h) : Get(h, t, Zero) = Get(g, t, Zero)

\* the entries of the tickers other than ticker are the same
SameOtherHoldings(h, g, ticker) ==
    /\ Keys(h) \ {ticker} = Keys(g) \ {ticker}
    /\ \A t \in Keys(h) \ {ticker} : Get(h, t, Zero) = Get(g, t, Zero)

LastOrder(op) == pc = "none" /\ last.op = op

\* the last call was a buy of a positive number of shares the cash did not cover
ClampedBuy ==
    /\ LastOrder("buy")
    /\ Gt(last.shares, Zero)
    /\ Gt(Mul(Mul(last.shares, last.price), Add(One, last.pre.commission_buy)),
          last.pre.cash)

\* the last call was a buy of a positive number of shares the cash covered
CoveredBuy ==
    /\ LastOrder("buy")
    /\ Gt(last.shares, Zero)
    /\ Le(Mul(Mul(last.shares, last.price), Add(One, last.pre.commission_buy)),
          last.pre.cash)

\* C1: cash is never negative, in the ledger after any sequence of calls and
\* in every recorded snapshot
C1_CashNeverNegative ==
    /\ HasLedger => Le(Zero, portfolio.cash)
    /\ \A i \in 1..Len(history) : Le(Zero, history[i].cash)

\* C1 witness: a buy beyond the cash has been filled and has emptied the cash
C1_Witness ==
    /\ ClampedBuy
    /\ ~last.raised
    /\ Gt(last.pre.cash, Zero)
    /\ portfolio.cash = Zero

\* C2: after update_value(prices), total_value is cash plus the value of the
\* held tickers that have a price, a ticker without a price counting for 0;
\* cash, holdings and trades are as before
C2_UpdateValueMarksToMarket ==
    LastOrder("update_value") =>
        /\ ~last.raised
        /\ portfolio.total_value =
               MarkToMarket(portfolio.cash, portfolio.holdings, last.prices_dict)
        /\ last.value = portfolio.total_value
        /\ portfolio.cash = last.pre.cash
        /\ portfolio.holdings = last.pre.holdings
        /\ portfolio.trades = last.pre.trades

\* C2 witness: a valuation with one held ticker priced and one not
C2_Witness ==
    /\ LastOrder("update_value")
    /\ \E t \in Keys(portfolio.holdings) : t \in DOMAIN last.prices_dict
    /\ \E t \in Keys(portfolio.holdings) : t \notin DOMAIN last.prices_dict
    /\ portfolio.total_value # last.pre.total_value

\* C3: every snapshot's portfolio_value is its cash plus the value of its
\* holdings at the prices of its date, also after the BUY phase has traded
C3_SnapshotMarkedToMarket ==
    \A i \in 1..Len(history) :
        history[i].portfolio_value =
            MarkToMarket(history[i].cash, history[i].holdings,
                         data[history[i].date])

SelectedTickers(snapshot) ==
    {snapshot.selected_tickers[j] : j \in 1..Len(snapshot.selected_tickers)}

\* C4: in every snapshot the held tickers are among the selected ones, and
\* num_positions is at most n_assets when the strategy returned at most
\* n_assets distinct tickers
C4_HeldAmongSelected ==
    \A i \in 1..Len(history) :
        /\ Keys(history[i].holdings) \subseteq SelectedTickers(history[i])
        /\ history[i].num_positions = Cardinality(Keys(history[i].holdings))
        /\ Cardinality(SelectedTickers(history[i])) <= params.n_assets
               => history[i].num_positions <= params.n_assets

\* C4 witness: a snapshot recorded after a rebalance from held tickers to a
\* disjoint set of tickers
C4_Witness ==
    /\ pc = "loop"
    /\ last.op = "iteration"
    /\ last.kind = "snapshot"
    /\ last.pre.holdings # <<>>
    /\ portfolio.holdings # <<>>
    /\ Keys(last.pre.holdings) \cap Keys(portfolio.holdings) = {}
    /\ history[Len(history)].num_positions <= params.n_assets

\* the buy of the converted shares of ticker, for the target value V at price p,
\* spends at most V and leaves cash >= 0 when the cash covers V
ConvertedBuyWithin(self, ticker, shares, V, p) ==
    /\ Le(Mul(Mul(shares, p), Add(One, self.commission_buy)), V)
    /\ Le(V, self.cash) =>
         /\ Le(Zero, Buy(self, ticker, shares, p, None).self.cash)
         /\ Le(Sub(self.cash, Buy(self, ticker, shares, p, None).self.cash), V)
         /\ Gt(shares, Zero) =>
              /\ ~Buy(self, ticker, shares, p, None).raised
              /\ LastTrade(Buy(self, ticker, shares, p, None).self).shares = shares

\* C5: the shares convert_values_to_shares returns for a priced ticker cost,
\* commission included, at most the target value, so their buy at the same
\* price with cash >= V spends at most V, is filled as asked and leaves
\* cash >= 0; a ticker with no price is not in the result
C5_ConvertedSharesAffordable ==
    LastOrder("convert_values_to_shares") =>
        /\ ~last.raised
        /\ Keys(last.value) \subseteq Keys(last.arg)
        /\ \A i \in 1..Len(last.arg) :
             IF last.arg[i][1] \in DOMAIN last.prices_dict
             THEN /\ HasKey(last.value, last.arg[i][1])
                  /\ ConvertedBuyWithin(portfolio, last.arg[i][1],
                                        Get(last.value, last.arg[i][1], Zero),
                                        last.arg[i][2],
                                        last.prices_dict[last.arg[i][1]])
             ELSE ~HasKey(last.value, last.arg[i][1])

\* C5 witness: a conversion under a positive buy commission of a positive
\* target the cash covers, with another ticker left out for want of a price
C5_Witness ==
    /\ LastOrder("convert_values_to_shares")
    /\ Gt(portfolio.commission_buy, Zero)
    /\ \E i \in 1..Len(last.arg) :
         /\ HasKey(last.value, last.arg[i][1])
         /\ Gt(last.arg[i][2], Zero)
         /\ Le(last.arg[i][2], portfolio.cash)
         /\ Gt(Get(last.value, last.arg[i][1], Zero), Zero)
    /\ \E i \in 1..Len(last.arg) : ~HasKey(last.value, last.arg[i][1])

\* cash / (price * (1 + commission_buy)) of the ledger before the last call
ClampedShares ==
    Div(last.pre.cash, Mul(last.price, Add(One, last.pre.commission_buy)))

ScenarioA ==
    Buy(NewPortfolio(R(100000), <<1, 1000>>, <<1, 1000>>), "X", R(100), R(150),
        None)

\* C7: a buy of s > 0 shares whose total cost the cash covers debits
\* s*p*(1+commission_buy), adds s to holdings[T], leaves the other holdings
\* and total_value alone and appends one 'buy' record with commission
\* s*p*commission_buy and value s*p; Scenario A gives cash 84985, position 100
C7_CoveredBuyEffects ==
    /\ CoveredBuy =>
         /\ ~last.raised
         /\ portfolio.cash =
                Sub(last.pre.cash,
                    Mul(Mul(last.shares, last.price),
                        Add(One, last.pre.commission_buy)))
         /\ HasKey(portfolio.holdings, last.ticker)
         /\ GetPosition(portfolio, last.ticker) =
                Add(GetPosition(last.pre, last.ticker), last.shares)
         /\ SameOtherHoldings(portfolio.holdings, last.pre.holdings, last.ticker)
         /\ portfolio.total_value = last.pre.total_value
         /\ portfolio.trades =
                Append(last.pre.trades,
                       [date       |-> Now,
                        ticker     |-> last.ticker,
                        action     |-> "buy",
                        shares     |-> last.shares,
                        price      |-> last.price,
                        commission |-> Mul(Mul(last.shares, last.price),
                                           last.pre.commission_buy),
                        value      |-> Mul(last.shares, last.price)])
    /\ ~ScenarioA.raised
    /\ ScenarioA.self.cash = R(84985)
    /\ GetPosition(ScenarioA.self, "X") = R(100)

\* C7 witness: a covered buy under a positive commission that adds to a
\* position already held
C7_Witness ==
    /\ CoveredBuy
    /\ Gt(last.pre.commission_buy, Zero)
    /\ HasKey(last.pre.holdings, last.ticker)
    /\ Gt(GetPosition(portfolio, last.ticker), GetPosition(last.pre, last.ticker))

\* the record a sale of shares at the last call's price appends
SellRecord(shares) ==
    [date       |-> Now,
     ticker     |-> last.ticker,
     action     |-> "sell",
     shares     |-> shares,
     price      |-> last.price,
     commission |-> Mul(Mul(shares, last.price), last.pre.commission_sell),
     value      |-> Mul(shares, last.price)]

\* the last call's ledger is the one before it after a sale of shares of its
\* ticker at its price
Sold(shares) ==
    /\ ~last.raised
    /\ portfolio.cash =
           Add(last.pre.cash,
               Mul(Mul(shares, last.price), Sub(One, last.pre.commission_sell)))
    /\ IF BelowPruneEps(Sub(GetPosition(last.pre, last.ticker), shares))
       THEN ~HasKey(portfolio.holdings, last.ticker)
       ELSE /\ HasKey(portfolio.holdings, last.ticker)
            /\ GetPosition(portfolio, last.ticker) =
                   Sub(GetPosition(last.pre, last.ticker), shares)
    /\ SameOtherHoldings(portfolio.holdings, last.pre.holdings, last.ticker)
    /\ portfolio.trades = Append(last.pre.trades, SellRecord(shares))

\* C8: sell_partial(T, s, p) with 0 < s <= holdings[T] credits s*p*(1-commission_sell),
\* takes s from holdings[T], removes the entry when the remainder is below
\* 1e-10 and appends one 'sell' record; sell(T, p) of a held ticker sells the
\* whole position, after which T is not in holdings and get_position(T) is 0
C8_SellEffects ==
    /\ ( /\ LastOrder("sell_partial")
         /\ HasKey(last.pre.holdings, last.ticker)
         /\ Gt(last.shares, Zero)
         /\ Le(last.shares, GetPosition(last.pre, last.ticker)) )
       => Sold(last.shares)
    /\ (LastOrder("sell") /\ HasKey(last.pre.holdings, last.ticker))
       => /\ Sold(GetPosition(last.pre, last.ticker))
          /\ ~HasKey(portfolio.holdings, last.ticker)
          /\ GetPosition(portfolio, last.ticker) = Zero

\* the last call was an order the ledger must refuse
InvalidOrder ==
    \/ LastOrder("buy") /\ Le(last.shares, Zero)
    \/ LastOrder("sell") /\ ~HasKey(last.pre.holdings, last.ticker)
    \/ /\ LastOrder("sell_partial")
       /\ \/ ~HasKey(last.pre.holdings, last.ticker)
          \/ Le(last.shares, Zero)
          \/ Gt(last.shares, GetPosition(last.pre, last.ticker))

\* C9: a buy of shares <= 0, a sell or sell_partial of a ticker not held, a
\* sell_partial of shares <= 0 or of more shares than held each raise and
\* leave cash, holdings, trades and total_value as they were
C9_InvalidOrdersChangeNothing ==
    InvalidOrder =>
        /\ last.raised
        /\ portfolio.cash = last.pre.cash
        /\ portfolio.holdings = last.pre.holdings
        /\ portfolio.trades = last.pre.trades
        /\ portfolio.total_value = last.pre.total_value

\* C9 witness: a sell_partial of more shares than the positive number held
\* has been refused
C9_Witness ==
    /\ LastOrder("sell_partial")
    /\ last.raised
    /\ Gt(GetPosition(last.pre, last.ticker), Zero)
    /\ Gt(last.shares, GetPosition(last.pre, last.ticker))

\* buy(T, s, p) immediately followed by sell_partial(T, s, p)
RoundTrip(self, ticker, shares, price) ==
    SellPartial(Buy(self, ticker, shares, price, None).self, ticker, shares,
                price, None)

\* the round trip costs 2*c*s*p and leaves the holdings as they were
RoundTripRestores(self, ticker, shares, price) ==
    /\ ~Buy(self, ticker, shares, price, None).raised
    /\ ~RoundTrip(self, ticker, shares, price).raised
    /\ RoundTrip(self, ticker, shares, price).self.cash =
           Sub(self.cash,
               Mul(R(2), Mul(self.commission_buy, Mul(shares, price))))
    /\ SameHoldings(RoundTrip(self, ticker, shares, price).self.holdings,
                    self.holdings)

\* C10: with commission_buy = commission_sell = c, a buy(T, s, p) the cash
\* covers followed at once by sell_partial(T, s, p) takes 2*c*s*p from the
\* cash and restores the holdings: T absent again if it was absent, the same
\* entries otherwise
C10_RoundTripRestoresHoldings ==
    (pc = "none" /\ portfolio.commission_buy = portfolio.commission_sell) =>
        \A ticker \in Tickers, shares \in ShareInputs, price \in PriceInputs :
            ( /\ Gt(shares, Zero)
              /\ Le(Mul(Mul(shares, price), Add(One, portfolio.commission_buy)),
                    portfolio.cash) )
            => RoundTripRestores(portfolio, ticker, shares, price)

\* the tickers whose position the last call has changed
Traded == {t \in Tickers : GetPosition(portfolio, t) # GetPosition(last.pre, t)}

\* the records present before the last call are the first records after it
RecordsKept ==
    /\ Len(portfolio.trades) >= Len(last.pre.trades)
    /\ SubSeq(portfolio.trades, 1, Len(last.pre.trades)) = last.pre.trades

\* C11: trades is append-only: a successful buy, sell or sell_partial appends
\* one record, a refused one none, update_value, the conversion and the
\* accessors none, rebalance one per order it executed, and no call, nor an
\* iteration of run(), removes, reorders or alters a record already present
C11_TradesAppendOnly ==
    /\ (pc = "none" \/ (pc = "loop" /\ last.op = "iteration")) => RecordsKept
    /\ (pc = "none" /\ last.op \in {"buy", "sell", "sell_partial"}) =>
           Len(portfolio.trades) =
               Len(last.pre.trades) + (IF last.raised THEN 0 ELSE 1)
    /\ (pc = "none" /\ last.op = "rebalance") =>
           Len(portfolio.trades) = Len(last.pre.trades) + Cardinality(Traded)
    /\ (pc = "none" /\ last.op \notin {"buy", "sell", "sell_partial", "rebalance"})
           => portfolio.trades = last.pre.trades

\* C11 witness: a rebalance has appended two records to a record already there
C11_Witness ==
    /\ LastOrder("rebalance")
    /\ last.pre.trades # <<>>
    /\ Len(portfolio.trades) = Len(last.pre.trades) + 2

\* C12: every entry of holdings has a share count that is positive and not
\* below 1e-10, also after a buy made with no cash
C12_NoZeroHolding ==
    pc = "none" =>
        \A i \in 1..Len(portfolio.holdings) :
            /\ Gt(portfolio.holdings[i][2], Zero)
            /\ ~BelowPruneEps(portfolio.holdings[i][2])

\* the sum of the values of d[i..]
RECURSIVE TotalFrom(_, _)
TotalFrom(d, i) == IF i > Len(d) THEN Zero ELSE Add(d[i][2], TotalFrom(d, i + 1))

LastAllocation(method) ==
    LastOrder("calculate_target_holdings") /\ last.method = method

\* the allocation has an entry per selected ticker and they sum to total_value
SharesOut ==
    /\ ~last.raised
    /\ Keys(last.value) = Keys(last.arg)
    /\ Len(last.value) = Len(last.arg)
    /\ last.arg = <<>> => last.value = <<>>
    /\ last.arg # <<>> => TotalFrom(last.value, 1) = last.total_value
    /\ portfolio = last.pre

ScenarioB ==
    CalculateTargetHoldings(<<<<"A", R(2)>>, <<"B", R(2)>>, <<"C", One>>>>,
                            R(100000), "score_proportional")

\* C13: 'equal' gives total_value/n to each of the n selected tickers,
\* 'score_proportional' gives total_value*score_i/sum(scores) to ticker i
\* (Scenario B: 40000, 40000, 20000); the values sum to total_value, an empty
\* selection gives an empty allocation and the ledger is left as it was
C13_AllocationShares ==
    /\ LastAllocation("equal") =>
         /\ SharesOut
         /\ \A i \in 1..Len(last.arg) :
              Mul(Get(last.value, last.arg[i][1], Zero), R(Len(last.arg))) =
                  last.total_value
    /\ (LastAllocation("score_proportional") /\ TotalFrom(last.arg, 1) # Zero) =>
         /\ SharesOut
         /\ \A i \in 1..Len(last.arg) :
              Mul(Get(last.value, last.arg[i][1], Zero), TotalFrom(last.arg, 1)) =
                  Mul(last.total_value, last.arg[i][2])
    /\ (LastAllocation("score_proportional") /\ last.arg = <<>>) => SharesOut
    /\ ~ScenarioB.raised
    /\ ScenarioB.value =
           <<<<"A", R(40000)>>, <<"B", R(40000)>>, <<"C", R(20000)>>>>

\* C13 witness: a score-proportional allocation of a positive total over
\* tickers of different scores
C13_Witness ==
    /\ LastAllocation("score_proportional")
    /\ Gt(last.total_value, Zero)
    /\ Len(last.value) = 3
    /\ Gt(Get(last.value, "A", Zero), Get(last.value, "C", Zero))

\* C14: 'score_proportional' over a non-empty selection whose scores sum to 0
\* gives the equal-weight allocation, and a method other than 'equal' and
\* 'score_proportional' raises and gives no allocation
C14_ZeroScoresAndUnknownMethod ==
    /\ ( /\ LastAllocation("score_proportional")
         /\ last.arg # <<>>
         /\ TotalFrom(last.arg, 1) = Zero ) =>
         /\ ~last.raised
         /\ Keys(last.value) = Keys(last.arg)
         /\ \A i \in 1..Len(last.arg) :
              Get(last.value, last.arg[i][1], Zero) =
                  Div(last.total_value, R(Len(last.arg)))
    /\ ( /\ LastOrder("calculate_target_holdings")
         /\ last.method \notin {"equal", "score_proportional"} ) =>
         /\ last.raised
         /\ last.value = <<>>
         /\ portfolio = last.pre

\* C14 witness: scores 1 and -1, which sum to 0, have shared a positive total
\* equally
C14_Witness ==
    /\ LastAllocation("score_proportional")
    /\ \E i \in 1..Len(last.arg) : last.arg[i][2] # Zero
    /\ TotalFrom(last.arg, 1) = Zero
    /\ Gt(last.total_value, Zero)
    /\ \A i \in 1..Len(last.arg) :
         Get(last.value, last.arg[i][1], Zero) = Div(last.total_value, R(2))

\* run() has left its loop
SweepDone == pc = "returned" \/ (pc = "raised" /\ DOMAIN data # {})

\* the date scheduled for the iteration after k iterations
Scheduled(k) == params.start_date + k * params.holding_period

\* floor((end_date - start_date) / holding_period) + 1
Iterations ==
    (params.end_date - params.start_date) \div params.holding_period + 1

\* C15: the clock starts at start_date and advances by holding_period once
\* per iteration whatever its outcome, so the k-th iteration is scheduled at
\* start_date + (k-1)*holding_period, and with start_date <= end_date the loop
\* ends after floor((end_date - start_date)/holding_period) + 1 iterations
C15_ClockAdvancesOncePerIteration ==
    /\ pc = "loop" => current_date = Scheduled(iteration)
    /\ (pc = "loop" /\ last.op = "iteration") =>
           last.scheduled = Scheduled(iteration - 1)
    /\ (pc = "loop" /\ params.start_date <= params.end_date) =>
           /\ iteration <= Iterations
           /\ current_date <= params.end_date <=> iteration < Iterations
    /\ (SweepDone /\ params.start_date <= params.end_date) =>
           iteration = Iterations

\* C15 witness: a run of three iterations, one skipped for want of assets,
\* one failed and one recorded, has left the loop
C15_Witness ==
    /\ pc = "returned"
    /\ iteration = Iterations
    /\ iteration >= 3
    /\ Len(history) = 1
    /\ last.kind = "error"

\* the records the last iteration has appended to trades
AppendedTrades == (Len(last.pre.trades) + 1)..Len(portfolio.trades)

\* C16: the actual date of an iteration is the greatest panel date that is
\* <= the scheduled date; the prices it marks and trades at, the date of its
\* trades and of its snapshot and the current_date given to the strategy are
\* those of the actual date
C16_ActualDateIsLatestAvailable ==
    last.op = "iteration" =>
        /\ last.kind = "no_date" <=>
               ~\E d \in DOMAIN data : d <= last.scheduled
        /\ last.kind # "no_date" =>
               /\ last.actual_date \in DOMAIN data
               /\ last.actual_date <= last.scheduled
               /\ \A d \in DOMAIN data :
                      d <= last.scheduled => d <= last.actual_date
               /\ \A t \in DOMAIN last.prices_dict :
                      /\ t \in DOMAIN data[last.actual_date]
                      /\ last.prices_dict[t] = data[last.actual_date][t]
               /\ \A i \in AppendedTrades :
                      /\ portfolio.trades[i].date = last.actual_date
                      /\ portfolio.trades[i].price =
                             data[last.actual_date][portfolio.trades[i].ticker]
        /\ last.call # <<>> => last.call[1].current_date = last.actual_date
        /\ (last.kind \in {"no_assets", "no_target_prices"}
               /\ last.pre.holdings # <<>>) =>
               portfolio.total_value =
                   MarkToMarket(portfolio.cash, portfolio.holdings,
                                data[last.actual_date])
        /\ last.kind = "snapshot" =>
               history[Len(history)].date = last.actual_date

\* C16 witness: an iteration scheduled between two panel dates has traded
\* and recorded its snapshot at the earlier one
C16_Witness ==
    /\ last.op = "iteration"
    /\ last.kind = "snapshot"
    /\ last.actual_date < last.scheduled
    /\ \E d \in DOMAIN data : d > last.scheduled
    /\ AppendedTrades # {}

C18_FailuresAreCaught ==
    [][/\ (iteration' = iteration + 1 /\ last'.kind = "error") =>
              /\ pc' = "loop"
              /\ history' = history
              /\ current_date' = current_date + params.holding_period
       /\ (/\ pc = "loop"
           /\ last.op = "iteration"
           /\ last.kind = "error"
           /\ current_date <= params.end_date) =>
              /\ iteration' = iteration + 1
              /\ last'.op = "iteration"
              /\ last'.scheduled = current_date]_vars

\* C18 witness: an order of rebalance has failed in an iteration that is not
\* the last, the strategy and the allocation having returned
C18_Witness ==
    /\ pc = "loop"
    /\ last.op = "iteration"
    /\ last.kind = "error"
    /\ ~last.strategy.raised
    /\ params.allocation_method # "other"
    /\ current_date <= params.end_date

\* C19: a sweep that recorded no snapshot makes run() raise, with no metrics
\* and no result; one that recorded a snapshot makes it return the metrics,
\* the history, the final ledger and the parameters
C19_NoSnapshotIsFatal ==
    /\ SweepDone => current_date > params.end_date
    /\ (pc = "raised" /\ DOMAIN data # {}) =>
           /\ history = <<>>
           /\ results = <<>>
    /\ pc = "returned" =>
           /\ history # <<>>
           /\ results.history = history
           /\ results.final_portfolio = portfolio
           /\ results.parameters = params
           /\ results.metrics.num_rebalances = Len(history)
           /\ results.metrics.final_value =
                  history[Len(history)].portfolio_value

\* C19 witness: a sweep of several iterations, none recorded, has ended in
\* the error
C19_Witness ==
    /\ pc = "raised"
    /\ DOMAIN data # {}
    /\ iteration > 1
    /\ history = <<>>
    /\ results = <<>>

InvalidConfig ==
    \/ params.allocation_method \notin {"equal", "score_proportional"}
    \/ params.start_date > params.end_date

\* C20: under an unknown allocation_method or a start_date later than
\* end_date run() raises before its loop: no iteration is executed and the
\* strategy is never called
C20_InvalidConfigFatalBeforeLoop ==
    (pc # "idle" /\ InvalidConfig) =>
        /\ iteration = 0
        /\ last.op # "iteration"
        /\ pc # "returned"

\* the rates are in [0, 1) and every price of the panel is positive
PositiveInputs ==
    /\ Gt(params.initial_capital, Zero)
    /\ Le(Zero, params.commission_buy) /\ Lt(params.commission_buy, One)
    /\ Le(Zero, params.commission_sell) /\ Lt(params.commission_sell, One)
    /\ \A d \in DOMAIN data : \A t \in DOMAIN data[d] : Gt(data[d][t], Zero)

\* C21: with initial_capital > 0, positive prices and rates in [0, 1) the
\* portfolio_value of every recorded snapshot is positive, and so is the
\* final_value of the metrics
C21_SnapshotValuePositive ==
    (pc \in {"loop", "returned"} /\ PositiveInputs) =>
        /\ \A i \in 1..Len(history) : Gt(history[i].portfolio_value, Zero)
        /\ pc = "returned" => Gt(results.metrics.final_value, Zero)

\* C21 witness: a run has returned whose last snapshot has no cash left and
\* a value below the initial capital
C21_Witness ==
    /\ pc = "returned"
    /\ PositiveInputs
    /\ Len(history) >= 2
    /\ history[Len(history)].cash = Zero
    /\ Lt(history[Len(history)].portfolio_value, params.initial_capital)
    /\ results.metrics.final_value = history[Len(history)].portfolio_value

\* the last call was one of the accessors
LastAccessor ==
    \/ LastOrder("get_holdings_value")
    \/ LastOrder("get_position")
    \/ LastOrder("get_trade_history")

\* C22: get_holdings_value, get_position and get_trade_history change no
\* field of the ledger; get_position returns 0 for a ticker not held; the
\* trade history read is the sequence of the records in trades, in their
\* order, so two reads with no trade in between are the same
C22_AccessorsArePure ==
    /\ LastAccessor => (~last.raised /\ portfolio = last.pre)
    /\ LastOrder("get_position") =>
           /\ ~HasKey(portfolio.holdings, last.ticker) => last.value = Zero
           /\ HasKey(portfolio.holdings, last.ticker) =>
                  last.value = Get(portfolio.holdings, last.ticker, Zero)
    /\ LastOrder("get_trade_history") =>
           /\ Len(last.value) = Len(portfolio.trades)
           /\ \A i \in 1..Len(last.value) : last.value[i] = portfolio.trades[i]
           /\ last.value = GetTradeHistory(last.pre)

\* C22 witness: the history of a ledger with two different trades has been
\* read
C22_Witness ==
    /\ LastOrder("get_trade_history")
    /\ Len(portfolio.trades) >= 2
    /\ portfolio.trades[1] # portfolio.trades[2]
    /\ portfolio.holdings # <<>>
    /\ last.value = portfolio.trades

\* the cash the records trades[i..] account for: a buy takes its value and
\* its commission, a sell gives its value less its commission
RECURSIVE CashFlowFrom(_, _)
CashFlowFrom(trades, i) ==
    IF i > Len(trades) THEN Zero
    ELSE Add(IF trades[i].action = "buy"
             THEN Neg(Add(trades[i].value, trades[i].commission))
             ELSE Sub(trades[i].value, trades[i].commission),
             CashFlowFrom(trades, i + 1))

\* the ledger run() builds from its arguments
FreshLedger ==
    NewPortfolio(params.initial_capital, params.commission_buy,
                 params.commission_sell)

\* C23: every run() starts its loop with a ledger of its own, cash =
\* initial_capital and no holdings and no trades, and with no snapshot,
\* whatever the run before on the same Backtester has left; the ledger of a
\* run holds the trades of that run only, its cash being initial_capital and
\* the cash flow of its trades, and it is the ledger returned in the result
C23_RunStartsFresh ==
    /\ [](/\ (pc = "loop" /\ iteration = 0) =>
                 /\ portfolio = FreshLedger
                 /\ portfolio.cash = params.initial_capital
                 /\ portfolio.holdings = <<>>
                 /\ portfolio.trades = <<>>
                 /\ history = <<>>
          /\ pc \in {"loop", "returned"} =>
                 /\ portfolio.cash = Add(params.initial_capital,
                                         CashFlowFrom(portfolio.trades, 1))
                 /\ Len(history) <= iteration
          /\ pc = "returned" =>
                 /\ results.final_portfolio = portfolio
                 /\ results.history = history)
    /\ [][(pc \in {"returned", "raised"} /\ pc' = "loop") =>
             /\ portfolio' = NewPortfolio(params'.initial_capital,
                                          params'.commission_buy,
                                          params'.commission_sell)
             /\ history' = <<>>
             /\ iteration' = 0
             /\ results' = results]_vars

\* C23 witness: a second run is at the start of its loop, the first having
\* returned a ledger with trades, holdings and other commission rates
C23_Witness ==
    /\ pc = "loop"
    /\ iteration = 0
    /\ results # <<>>
    /\ results.final_portfolio.trades # <<>>
    /\ results.final_portfolio.holdings # <<>>
    /\ results.final_portfolio.commission_buy # params.commission_buy
    /\ portfolio.trades = <<>>
    /\ portfolio.cash = params.initial_capital

\* C24: an iteration that ends in a skip (no panel date, no price of a held
\* ticker, no asset selected, no price of a selected ticker, or a failure
\* caught by the loop) appends no snapshot and leaves the cash, the holdings
\* and the trades of the ledger as they were when it began
C24_SkipLeavesLedger ==
    [][(iteration' = iteration + 1 /\ last'.kind # "snapshot") =>
          /\ history' = history
          /\ portfolio'.cash = portfolio.cash
          /\ portfolio'.holdings = portfolio.holdings
          /\ portfolio'.trades = portfolio.trades]_vars

\* the last call was a rebalance that has returned
RebalanceReturned == LastOrder("rebalance") /\ ~last.raised

\* the target of ticker in the last call, 0 when it has none
TargetOf(ticker) == Get(last.arg, ticker, Zero)

\* the records the last call has appended to trades
NewTrades == (Len(last.pre.trades) + 1)..Len(portfolio.trades)

\* C25: after a rebalance that completes, a ticker held before with target 0
\* or none has been sold whole and is not held; a ticker held above its
\* target is held at exactly its target; every ticker held is in the target
\* and held at no more than its target
C25_RebalanceReachesTargets ==
    RebalanceReturned =>
        /\ \A t \in Keys(last.pre.holdings) :
               /\ TargetOf(t) = Zero =>
                      /\ ~HasKey(portfolio.holdings, t)
                      /\ \E i \in NewTrades :
                             /\ portfolio.trades[i].ticker = t
                             /\ portfolio.trades[i].action = "sell"
                             /\ portfolio.trades[i].shares =
                                    Get(last.pre.holdings, t, Zero)
               /\ (TargetOf(t) # Zero
                      /\ Lt(TargetOf(t), Get(last.pre.holdings, t, Zero))) =>
                      /\ HasKey(portfolio.holdings, t)
                      /\ Get(portfolio.holdings, t, Zero) = TargetOf(t)
        /\ \A t \in Keys(portfolio.holdings) :
               /\ HasKey(last.arg, t)
               /\ Le(Get(portfolio.holdings, t, Zero), TargetOf(t))

\* C25 witness: a rebalance has sold the whole of a ticker without target
\* and has cut another ticker down to its target
C25_Witness ==
    /\ RebalanceReturned
    /\ \E t \in Keys(last.pre.holdings) :
           /\ TargetOf(t) = Zero
           /\ Gt(Get(last.pre.holdings, t, Zero), Zero)
           /\ ~HasKey(portfolio.holdings, t)
    /\ \E u \in Keys(last.pre.holdings) :
           /\ TargetOf(u) # Zero
           /\ Lt(TargetOf(u), Get(last.pre.holdings, u, Zero))
           /\ Get(portfolio.holdings, u, Zero) = TargetOf(u)

\* C26: in the records one rebalance call appends, whether it returns or
\* raises, no sell follows a buy, and no ticker has both a sell and a buy
C26_SellsBeforeBuys ==
    LastOrder("rebalance") =>
        /\ \A i \in NewTrades :
               portfolio.trades[i].action \in {"sell", "buy"}
        /\ \A i, j \in NewTrades :
               (i < j /\ portfolio.trades[i].action = "buy") =>
                   portfolio.trades[j].action = "buy"
        /\ \A i, j \in NewTrades :
               portfolio.trades[i].action # portfolio.trades[j].action =>
                   portfolio.trades[i].ticker # portfolio.trades[j].ticker

\* C26 witness: a rebalance has sold one ticker and bought another
C26_Witness ==
    /\ RebalanceReturned
    /\ \E i, j \in NewTrades :
           /\ i < j
           /\ portfolio.trades[i].action = "sell"
           /\ portfolio.trades[j].action = "buy"
           /\ portfolio.trades[i].ticker # portfolio.trades[j].ticker

\* the ledger of the last rebalance call as marked by its first update_value
LastMarked == UpdateValue(last.pre, last.prices_dict)

\* the outcome of Step 1 of the last rebalance call, marked after it
LastAfterSell == AfterSell(LastMarked, last.arg, last.prices_dict, None)

\* In what follows marked is the ledger as marked before Step 1 and sold the
\* ledger as marked after it.
\* value_lost as rebalance measures it
Lost(marked, sold) == ValueLost(marked.total_value, sold)

\* cash_intended_to_buy as rebalance computes it
Intended(marked, sold) ==
    CashIntendedToBuy(marked.cash, sold, Lost(marked, sold))

\* fraction_to_buy as rebalance computes it
Scaling(marked, sold) == FractionToBuy(marked.cash, sold, Lost(marked, sold))

\* the records Step 1 has appended
SellRecords(sold) == (Len(last.pre.trades) + 1)..Len(sold.trades)

\* the sum of the commissions of the records trades[i..]
RECURSIVE CommissionsFrom(_, _)
CommissionsFrom(trades, i) ==
    IF i > Len(trades) THEN Zero
    ELSE Add(trades[i].commission, CommissionsFrom(trades, i + 1))

\* the value lost is the commissions of the sells of Step 1
LostIsCommissions(marked, sold) ==
    /\ Le(Zero, Lost(marked, sold))
    /\ \A i \in SellRecords(sold) : sold.trades[i].action = "sell"
    /\ Lost(marked, sold) =
           CommissionsFrom(sold.trades, Len(last.pre.trades) + 1)
    /\ SellRecords(sold) = {} => Lost(marked, sold) = Zero

LostInStepOne(marked, after) ==
    ~after.raised => LostIsCommissions(marked, after.self)

\* C27: the value lost measured by rebalance, the total value marked before
\* Step 1 less the total value marked after it at the same prices, is never
\* negative and is the sum of the commissions of the sell records Step 1 has
\* appended; it is 0 when Step 1 sells nothing
C27_ValueLostIsSellCommissions ==
    LastOrder("rebalance") => LostInStepOne(LastMarked, LastAfterSell)

TwoSellsSeen(marked, after) ==
    /\ ~after.raised
    /\ Cardinality(SellRecords(after.self)) = 2
    /\ Gt(Lost(marked, after.self), Cent)
    /\ after.self.holdings # <<>>

\* C27 witness: Step 1 has sold two tickers and has lost more than a cent
C27_Witness == LastOrder("rebalance") /\ TwoSellsSeen(LastMarked, LastAfterSell)

\* the sum of the value fields of the records trades[i..]
RECURSIVE ProceedsFrom(_, _)
ProceedsFrom(trades, i) ==
    IF i > Len(trades) THEN Zero
    ELSE Add(trades[i].value, ProceedsFrom(trades, i + 1))

\* the tickers Step 2 of the last rebalance call has an order for
ToBuy(sold) ==
    {t \in Keys(last.arg) : Gt(TargetOf(t), Get(sold.holdings, t, Zero))}

\* (target_shares - current_shares) * fraction_to_buy of ticker
Ordered(marked, sold, ticker) ==
    Mul(Sub(TargetOf(ticker), Get(sold.holdings, ticker, Zero)),
        Scaling(marked, sold).value)

FractionIsSound(marked, sold) ==
    /\ ~Scaling(marked, sold).raised
    /\ Gt(Scaling(marked, sold).value, Zero)
    /\ Le(Scaling(marked, sold).value, One)
    /\ Le(Lost(marked, sold), Cent) => Scaling(marked, sold).value = One
    /\ Gt(Lost(marked, sold), Cent) =>
           /\ Intended(marked, sold) =
                  ProceedsFrom(sold.trades, Len(last.pre.trades) + 1)
           /\ Gt(Intended(marked, sold), Zero)
           /\ Scaling(marked, sold).value = Sub(One, last.pre.commission_sell)
    /\ \A t \in ToBuy(sold) : Gt(Ordered(marked, sold, t), Zero)

FractionAfterStepOne(marked, after) ==
    ~after.raised => FractionIsSound(marked, after.self)

\* C28: with commission_sell in [0, 1) the fraction rebalance scales its buys
\* by is defined and lies in (0, 1]: it is 1 when the value lost is at most
\* 0.01; otherwise its denominator is the gross proceeds of Step 1, which is
\* positive, and it is 1 - commission_sell; no order of Step 2 is scaled to
\* zero or less
C28_FractionInUnitInterval ==
    (LastOrder("rebalance") /\ Le(Zero, last.pre.commission_sell)
                            /\ Lt(last.pre.commission_sell, One)) =>
        FractionAfterStepOne(LastMarked, LastAfterSell)

ScaledOrderSeen(marked, after) ==
    /\ ~after.raised
    /\ Gt(Lost(marked, after.self), Cent)
    /\ ~Scaling(marked, after.self).raised
    /\ Lt(Scaling(marked, after.self).value, One)
    /\ ToBuy(after.self) # {}

\* C28 witness: Step 1 has lost more than a cent, the fraction is below 1 and
\* Step 2 has an order to scale
C28_Witness == RebalanceReturned /\ ScaledOrderSeen(LastMarked, LastAfterSell)

\* the buy records of ticker the last call has appended
BuysOf(ticker) ==
    {i \in NewTrades : /\ portfolio.trades[i].action = "buy"
                       /\ portfolio.trades[i].ticker = ticker}

\* what the buy records trades[i..] of the tickers placed before position k
\* of the target have cost, commission included
RECURSIVE SpentBefore(_, _, _)
SpentBefore(trades, i, k) ==
    IF i > Len(trades) THEN Zero
    ELSE Add(IF /\ trades[i].action = "buy"
                /\ Index(last.arg, trades[i].ticker) < k
             THEN Add(trades[i].value, trades[i].commission)
             ELSE Zero,
             SpentBefore(trades, i + 1, k))

\* the cash Step 2 has when it comes to ticker
CashAt(sold, ticker) ==
    Sub(sold.cash,
        SpentBefore(portfolio.trades, Len(last.pre.trades) + 1,
                    Index(last.arg, ticker)))

\* the total cost of an order of shares of ticker
OrderCost(shares, ticker) ==
    Mul(Mul(shares, last.prices_dict[ticker]), Add(One, last.pre.commission_buy))

\* the shares Step 2 is to buy of ticker, having cash and an order of ordered
Fitted(ordered, cash, ticker) ==
    IF Le(OrderCost(ordered, ticker), cash) THEN ordered
    ELSE Div(cash, Mul(last.prices_dict[ticker],
                       Add(One, last.pre.commission_buy)))

\* the buy of ticker is the order, or what the cash affords of it
BuyFits(sold, ordered, cash, ticker) ==
    IF Gt(OrderCost(ordered, ticker), cash) /\ cash = Zero
    THEN BuysOf(ticker) = {}
    ELSE /\ Cardinality(BuysOf(ticker)) = 1
         /\ \A i \in BuysOf(ticker) :
                /\ portfolio.trades[i].shares = Fitted(ordered, cash, ticker)
                /\ Gt(portfolio.trades[i].shares, Zero)
         /\ Get(portfolio.holdings, ticker, Zero) =
                Add(Get(sold.holdings, ticker, Zero),
                    Fitted(ordered, cash, ticker))

BuysFit(marked, sold) ==
    /\ \A t \in ToBuy(sold) :
           BuyFits(sold, Ordered(marked, sold, t), CashAt(sold, t), t)
    /\ \A t \in Tickers \ ToBuy(sold) : BuysOf(t) = {}
    /\ Le(Zero, portfolio.cash)

StepTwoFits(marked, after) ==
    IF last.raised
    THEN \/ after.raised
         \/ \E t \in ToBuy(after.self) : t \notin DOMAIN last.prices_dict
    ELSE ~after.raised /\ BuysFit(marked, after.self)

\* C29: in Step 2 of a rebalance that returns, a ticker whose target exceeds
\* its holding is bought once, (target - current) * fraction shares when the
\* total cost of that order fits the cash at that moment and
\* cash / (price * (1 + commission_buy)) shares otherwise, and is not bought
\* and has no record when the cash is 0; no other ticker is bought; a
\* rebalance raises only in Step 1 or for a ticker to buy that has no price,
\* never for want of cash
C29_BuysFitTheCash ==
    LastOrder("rebalance") => StepTwoFits(LastMarked, LastAfterSell)

ClampedAndLeftOut(marked, sold) ==
    /\ \E t \in ToBuy(sold) :
           /\ BuysOf(t) # {}
           /\ Lt(Fitted(Ordered(marked, sold, t), CashAt(sold, t), t),
                 Ordered(marked, sold, t))
    /\ \E u \in ToBuy(sold) :
           /\ BuysOf(u) = {}
           /\ CashAt(sold, u) = Zero

\* C29 witness: Step 2 has bought what the cash afforded of one ticker,
\* less than ordered, and has left out another for want of cash
C29_Witness ==
    RebalanceReturned /\ ClampedAndLeftOut(LastMarked, LastAfterSell.self)

\* every ticker has been traded at one price
OnePricePerTicker ==
    \A i, j \in 1..Len(portfolio.trades) :
        portfolio.trades[i].ticker = portfolio.trades[j].ticker =>
            portfolio.trades[i].price = portfolio.trades[j].price

\* the price ticker has been traded at
TradedAt(ticker) ==
    portfolio.trades[CHOOSE i \in 1..Len(portfolio.trades) :
                         portfolio.trades[i].ticker = ticker].price

\* the value of the ledger at the prices its tickers have been traded at
ValueAtTradedPrices ==
    Add(portfolio.cash,
        ValueOver(Keys(portfolio.holdings), portfolio.holdings,
                  [t \in Keys(portfolio.holdings) |-> TradedAt(t)]))

\* the last call was a buy, a sell or a sell_partial that has returned
OrderFilled ==
    /\ LastOrder("buy") \/ LastOrder("sell") \/ LastOrder("sell_partial")
    /\ ~last.raised

\* C30: trading at the marking prices loses the commissions only: a buy, a
\* sell or a sell_partial of a ticker at the price p changes
\* cash + holdings[ticker] * p by minus the commission of the record it
\* appends and leaves the other holdings alone, so that after any sequence of
\* orders made at one price per ticker the value of the ledger at those
\* prices is the value it began with less the commissions of the records
C30_OnlyCommissionsAreLost ==
    /\ OrderFilled =>
           /\ Len(portfolio.trades) = Len(last.pre.trades) + 1
           /\ Add(portfolio.cash,
                  Mul(Get(portfolio.holdings, last.ticker, Zero), last.price)) =
                  Sub(Add(last.pre.cash,
                          Mul(Get(last.pre.holdings, last.ticker, Zero),
                              last.price)),
                      LastTrade(portfolio).commission)
           /\ SameOtherHoldings(portfolio.holdings, last.pre.holdings,
                                last.ticker)
    /\ (pc = "none" /\ OnePricePerTicker) =>
           ValueAtTradedPrices =
               Sub(portfolio.initial_capital,
                   CommissionsFrom(portfolio.trades, 1))

\* C30 witness: three orders at one price per ticker, buys and a sell among
\* them, have cost commissions and have left a position
C30_Witness ==
    /\ pc = "none"
    /\ OnePricePerTicker
    /\ Len(portfolio.trades) = 3
    /\ \E i \in 1..3 : portfolio.trades[i].action = "sell"
    /\ \A i \in 1..3 : Gt(portfolio.trades[i].commission, Zero)
    /\ portfolio.holdings # <<>>
    /\ OrderFilled

\* C31: history grows by at most one snapshot per iteration, appended at
\* its end in iteration order with non-decreasing dates; a snapshot once
\* appended is never changed, its holdings being a copy: the later trades of
\* the ledger alter nothing in the snapshots before
C31_HistoryAppendOnly ==
    /\ [](\A i, j \in 1..Len(history) :
              i < j => history[i].date <= history[j].date)
    /\ [][/\ Len(history') <= Len(history) + 1
          /\ Len(history') >= Len(history)
          /\ \A i \in 1..Len(history) : history'[i] = history[i]
          /\ iteration' = iteration => history' = history
          /\ Len(history') = Len(history) + 1 =>
                 /\ iteration' = iteration + 1
                 /\ history'[Len(history')].holdings = portfolio'.holdings
                 /\ history'[Len(history')].cash = portfolio'.cash]_vars

\* C31 witness: the ledger has traded after the first of two snapshots, whose
\* holdings and cash differ from those of the second
C31_Witness ==
    /\ pc = "loop"
    /\ Len(history) = 2
    /\ history[1].holdings # history[2].holdings
    /\ history[1].cash # history[2].cash
    /\ history[2].holdings = portfolio.holdings
    /\ Len(portfolio.trades) > history[1].num_positions

\* C32: each panel date is used for at most one rebalance: no two snapshots
\* carry the same date, the dates being strictly increasing along history
C32_SnapshotDatesIncrease ==
    \A i, j \in 1..Len(history) : i < j => history[i].date < history[j].date

\* the first snapshot of the run has just been recorded, by a strategy that
\* has returned no more than n_assets tickers
FirstSnapshot ==
    /\ last.op = "iteration"
    /\ last.kind = "snapshot"
    /\ Len(history) = 1
    /\ Len(last.strategy.value) <= params.n_assets

\* the selected tickers that have a price at the actual date
PricedSelection ==
    {t \in Keys(last.strategy.value) : t \in DOMAIN data[last.actual_date]}

\* the target values the first rebalance has been given
FirstTargets ==
    CalculateTargetHoldings(last.strategy.value, last.pre.total_value,
                            params.allocation_method).value

\* the selected tickers that have a price and a positive target value
PricedTargets == {t \in PricedSelection : Gt(Get(FirstTargets, t, Zero), Zero)}

\* every selected ticker is given a positive target value
AllTargetsPositive ==
    \/ params.allocation_method = "equal"
    \/ \A i \in 1..Len(last.strategy.value) : Gt(last.strategy.value[i][2], Zero)

MetricsReturned == last.op = "calculate_metrics" /\ ~last.raised

\* the largest of values[1..t]
RunningMax(values, t) ==
    CHOOSE x \in {values[s] : s \in 1..t} : \A s \in 1..t : Le(values[s], x)

\* how far values[t] is below the running maximum, as a fraction of it
BelowRunningMax(values, t) ==
    Div(Sub(values[t], RunningMax(values, t)), RunningMax(values, t))

\* the metrics m are those of the values v and the initial capital c
MetricsAsSpecified(m, v, c) ==
    /\ m.num_rebalances = Len(v)
    /\ m.final_value = v[Len(v)]
    /\ m.total_return = Sub(Div(m.final_value, c), One)
    /\ \E t \in 1..Len(v) : m.max_drawdown = BelowRunningMax(v, t)
    /\ \A t \in 1..Len(v) : Le(m.max_drawdown, BelowRunningMax(v, t))
    /\ Le(m.max_drawdown, Zero)
    /\ m.max_drawdown = Zero <=>
           \A t \in 1..Len(v) : \A s \in 1..t : Le(v[s], v[t])

\* C34: calculate_metrics on a history that is not empty returns
\* num_rebalances = the number of snapshots, final_value = the portfolio_value
\* of the last snapshot, total_return = final_value / initial_capital - 1 and
\* max_drawdown = the least (value[t] - runningMax[t]) / runningMax[t], which
\* is <= 0, and 0 exactly when no value is below its running maximum
C34_MetricsOfHistory ==
    MetricsReturned =>
        /\ last.arg # <<>>
        /\ MetricsAsSpecified(last.value, PortfolioValues(last.arg),
                              last.initial_capital)

\* metrics of four snapshots whose value falls, recovers and falls less deep
C34_Witness ==
    /\ MetricsReturned
    /\ PortfolioValues(last.arg) = <<R(4), One, R(4), R(2)>>
    /\ last.value.max_drawdown = <<-3, 4>>
    /\ last.value.total_return = Zero
    /\ last.initial_capital = R(2)

\* C35: calculate_metrics handles degenerate histories without dividing by
\* zero: tir is 0 when the first and the last snapshot are less than a day
\* apart (years not > 0); sharpe is 0 whenever volatility is not > 0; a history
\* of fewer than three snapshots has volatility 0 and sharpe 0; an empty
\* history raises an error and no metrics are returned
C35_DegenerateHistories ==
    last.op = "calculate_metrics" =>
        /\ last.raised <=> last.arg = <<>>
        /\ last.raised => last.value = <<>>
        /\ ~last.raised =>
              /\ last.value.days = last.arg[Len(last.arg)].date - last.arg[1].date
              /\ last.value.years = Div(R(4 * last.value.days), R(1461))
              /\ last.value.days < 1 =>
                     /\ ~Gt(last.value.years, Zero)
                     /\ last.value.tir = Zero
              /\ last.value.days >= 1 =>
                     last.value.tir =
                         PowLessOne(Div(last.value.final_value, last.initial_capital),
                                    Div(One, last.value.years))
              /\ last.value.volatility = Zero => last.value.sharpe = Zero
              /\ last.value.volatility # Zero =>
                     last.value.sharpe = Quot(last.value.tir, last.value.volatility)
              /\ Len(last.arg) < 3 =>
                     /\ last.value.volatility = Zero
                     /\ last.value.sharpe = Zero

\* metrics of two snapshots of one date whose values differ: no time has
\* passed and there is one return only
C35_Witness ==
    /\ MetricsReturned
    /\ Len(last.arg) = 2
    /\ last.arg[1].date = last.arg[2].date
    /\ last.arg[1].portfolio_value # last.arg[2].portfolio_value
    /\ last.value.total_return # Zero
    /\ last.value.tir = Zero
    /\ last.value.sharpe = Zero

\* some history has a volatility above 0 and a sharpe ratio
SomeVolatility ==
    /\ MetricsReturned
    /\ Len(last.arg) = 3
    /\ last.value.volatility # Zero
    /\ last.value.tir # Zero

\* some history of three snapshots or more has a volatility of 0
NoVolatility ==
    /\ MetricsReturned
    /\ Len(last.arg) >= 3
    /\ last.value.volatility = Zero
    /\ last.value.tir # Zero

\* calculate_metrics has raised
MetricsRaised == last.op = "calculate_metrics" /\ last.raised

\* a strategy has been called
StrategyCalled == last.op \in {"price_to_sma_ratio", "relative_momentum", "fip"}

\* the panels that differ from panel in one row dated after date: the row is
\* another one, or there is none
ChangedAfter(panel, date) ==
    {[panel EXCEPT ![d] = row] :
       d \in {e \in DOMAIN panel : e > date}, row \in ScoreRows \cup {<<>>}}

\* C36: every shipped strategy returns at most n (ticker, score) pairs, of
\* distinct tickers, in the order of non-increasing scores, and computes them
\* from the rows dated current_date or before only: a change of a row dated
\* after current_date does not change what the strategy returns
C36_StrategyContract ==
    StrategyCalled =>
        /\ Len(last.value) <= last.n
        /\ \A i, j \in 1..Len(last.value) :
               i < j => /\ last.value[i][1] # last.value[j][1]
                        /\ Le(last.value[j][2], last.value[i][2])
        /\ \A i \in 1..Len(last.value) : last.value[i][1] \in Tickers
        /\ \A other \in ChangedAfter(last.arg, last.current_date) :
               LET r == Scored(last.strategy, other, last.n, last.current_date)
               IN  r.raised = last.raised /\ r.value = last.value

\* a strategy asked for one ticker has returned B, the second of two tickers
\* with a score and the one with the higher score, on a date that later rows
\* follow
C36_Witness ==
    /\ StrategyCalled
    /\ ~last.raised
    /\ last.n = 1
    /\ last.current_date < StrategyEnd
    /\ Len(last.value) = 1
    /\ last.value[1][1] = "B"
    /\ Len(Scored(last.strategy, last.arg, 2, last.current_date).value) = 2
    /\ last.arg[StrategyEnd] # last.arg[last.current_date]

\* the call of get_data made by run() has returned or raised
Fetched == fetch # <<>> /\ pc # "get_data"

\* get_data has raised, and run() with it: no Portfolio has been created
GetDataRaised == Fetched /\ pc = "raised" /\ portfolio = <<>>

\* the dates of the rows Yahoo Finance sends for ticker t
DownloadedDates(t) ==
    {d \in DOMAIN fetch.yahoo[t].rows :
       fetch.start_date <= d /\ d <= fetch.end_date + 6}

\* the fetch of ticker t and the validation of its rows succeed
Succeeded(t) ==
    /\ fetch.yahoo[t].kind = "data"
    /\ DownloadedDates(t) # {}
    /\ \A d \in DownloadedDates(t) : Le(Zero, fetch.yahoo[t].rows[d])

\* the panel has a row of ticker t on date d
HasRow(panel, d, t) == d \in DOMAIN panel /\ t \in DOMAIN panel[d]

=============================================================================
